---- MODULE Spec2Model ----
(***************************************************************************)
(* A model of the no-code form builder: the zustand store of the editor    *)
(* (src/src/store/index.ts), the schema utilities (schema/utils.ts, kept   *)
(* as src/unnamed/part_001) and the validation / visibility engine         *)
(* (src/src/validation/index.ts).                                          *)
(*                                                                         *)
(* The specifications share the variables:                                 *)
(*   Spec          the store's field handlers, from the empty form         *)
(*   SpecRemove    a form built by the store, then one observed removal    *)
(*   SpecStamp     every handler of the store that changes the form        *)
(*   SpecSchema    validateFormSchema, migrateSchema and the adapter's     *)
(*                 load applied to stored documents                        *)
(*   SpecReorder   reorderFields applied to bounded inputs                 *)
(*   SpecCycle     detectCircularDependencies applied to bounded inputs    *)
(*   SpecValidate  validateField applied to bounded inputs                 *)
(*   SpecForm      evaluateConditions and validateForm on bounded inputs   *)
(*   SpecCondition evaluateCondition applied to bounded operands           *)
(*   SpecRender    the FormRenderer component's change and submit handlers *)
(*                 (src/src/components/renderer/FormRenderer.tsx)          *)
(*   SpecTraverse  detectCircularDependencies executed call by call, then  *)
(*                 evaluateConditions and validateForm; SpecTraverseFair   *)
(*                 adds that a started run keeps taking steps              *)
(*   SpecSelect    the store's handlers with selectField, newForm and      *)
(*                 loadForm                                                *)
(*   SpecAdapter   save and delete of the localStorage adapter (kept as    *)
(*                 src/unnamed/part_003), interleaved at their awaits      *)
(***************************************************************************)
EXTENDS Integers, Sequences, FiniteSets, TLC

VARIABLES
    fields,           \* currentForm.fields
    updatedAt,        \* currentForm.metadata.updatedAt
    selectedFieldId,  \* store.selectedFieldId (0 is null)
    nextId,           \* the next id uuidv4() hands out
    now,              \* the wall clock read by new Date()
    lastOp,           \* the last store action and its arguments (history)
    before,           \* currentForm.fields before the last store action (history)
    title,            \* currentForm.metadata.title
    settings,         \* currentForm.settings
    storeFormData,    \* store.formData
    localStorage,     \* the browser's localStorage: what getItem gives for each key
    localFormData,    \* FormRenderer's own formData (useState): the answers, by field id
    localErrors,      \* FormRenderer's own errors (useState): the messages, by field id
    run,              \* a function executed step by step: its locals and its call stack
    call,             \* the engine function applied and its inputs
    ret               \* what that function returned

vars == <<fields, updatedAt, selectedFieldId, nextId, now, lastOp, before, title, settings,
          storeFormData,
          localStorage, localFormData, localErrors, run, call, ret>>

storeVars == <<fields, updatedAt, selectedFieldId, nextId, now, lastOp, before, title, settings,
               storeFormData>>

\* what the field handlers of the store leave alone
formVars == <<title, settings, storeFormData>>

engineVars == <<call, ret, localStorage>>

rendererVars == <<localFormData, localErrors>>

(***************************************************************************)
(* Bounds of the model.                                                    *)
(***************************************************************************)
MaxFields == 3

MaxIds == 3

MaxClock == 1

MaxFormRules == 3

MaxGraphFields == 3

MaxGraphRules == 4

MaxValidationRules == 2

MaxCondRules == 2

(***************************************************************************)
(* Small helpers on sequences.                                             *)
(***************************************************************************)
Range(s) == {s[i] : i \in 1..Len(s)}

SeqsUpTo(S, n) == UNION {[1..k -> S] : k \in 0..n}

Min(a, b) == IF a <= b THEN a ELSE b

Max(a, b) == IF a >= b THEN a ELSE b

(***************************************************************************)
(* Values (FieldValue, and the `unknown` of a rule's value).  A value is a *)
(* record of one shape: t is the JavaScript type, s the characters of a    *)
(* string (a sequence of one-character strings), n a number (or 1/0 for a  *)
(* boolean, or a File's size), a the elements of an array (values again),  *)
(* nm a File's name; a File's s is its MIME type.                          *)
(***************************************************************************)
Undefined == [t |-> "undefined", s |-> <<>>, n |-> 0, a |-> <<>>, nm |-> <<>>]

Null == [t |-> "null", s |-> <<>>, n |-> 0, a |-> <<>>, nm |-> <<>>]

Str(chars) == [t |-> "string", s |-> chars, n |-> 0, a |-> <<>>, nm |-> <<>>]

Num(k) == [t |-> "number", s |-> <<>>, n |-> k, a |-> <<>>, nm |-> <<>>]

Bool(b) == [t |-> "boolean", s |-> <<>>, n |-> IF b THEN 1 ELSE 0, a |-> <<>>, nm |-> <<>>]

Arr(elems) == [t |-> "array", s |-> <<>>, n |-> 0, a |-> elems, nm |-> <<>>]

File(name, mime, size) == [t |-> "file", s |-> mime, n |-> size, a |-> <<>>, nm |-> name]

\* typeof v === 'string', typeof v === 'number', Array.isArray(v), v instanceof File
IsString(v) == v.t = "string"

IsNumber(v) == v.t = "number"

IsArray(v) == v.t = "array"

IsFile(v) == v.t = "file"

\* x === y: primitives compare by value; an array or a File is an object, and
\* the two operands (an answer and a literal of the schema) are never the same
\* object, so they are never strictly equal.
StrictEquals(x, y) ==
    /\ x.t = y.t
    /\ x.t \in {"undefined", "null", "string", "number", "boolean"}
    /\ x.s = y.s
    /\ x.n = y.n

\* String.prototype.includes
StringIncludes(hay, needle) ==
    \E i \in 0..Len(hay) :
        /\ i + Len(needle) <= Len(hay)
        /\ SubSeq(hay, i + 1, i + Len(needle)) = needle

\* Array.prototype.includes (SameValueZero; no NaN among the values)
ArrayIncludes(elems, x) == \E i \in 1..Len(elems) : StrictEquals(elems[i], x)

StartsWith(str, prefix) ==
    Len(prefix) <= Len(str) /\ SubSeq(str, 1, Len(prefix)) = prefix

EndsWith(str, suffix) ==
    Len(suffix) <= Len(str)
        /\ SubSeq(str, Len(str) - Len(suffix) + 1, Len(str)) = suffix

IsWhitespace(c) == c = " "

\* value.trim() === ''
TrimIsEmpty(chars) == \A i \in 1..Len(chars) : IsWhitespace(chars[i])

\* isEmpty without the trim: a blank string counts as an answer
isEmpty_NoTrim(value) ==
    IF value.t \in {"null", "undefined"} THEN TRUE
    ELSE IF IsString(value) THEN Len(value.s) = 0
    ELSE IF IsArray(value) THEN Len(value.a) = 0
    ELSE FALSE

\* isEmpty (validation/index.ts)
isEmpty(value) ==
    IF value.t \in {"null", "undefined"} THEN TRUE
    ELSE IF IsString(value) THEN TrimIsEmpty(value.s)
    ELSE IF IsArray(value) THEN Len(value.a) = 0
    ELSE FALSE

(***************************************************************************)
(* Conditional visibility.  A field's `conditions` is optional: the model  *)
(* keeps it as a sequence of length 0 (absent) or 1.                       *)
(***************************************************************************)
NoConditions == <<>>

Conditions(show, rules, logic) == <<[show |-> show, rules |-> rules, logic |-> logic]>>

HasConditions(field) == Len(field.conditions) = 1

ConditionsOf(field) == field.conditions[1]

\* evaluateCondition whose notContains is false where contains is
evaluateCondition_NotContainsStrict(operator, fieldValue, compareValue) ==
    CASE operator = "equals" -> StrictEquals(fieldValue, compareValue)
      [] operator = "notEquals" -> ~StrictEquals(fieldValue, compareValue)
      [] operator = "contains" ->
            IF IsString(fieldValue) /\ IsString(compareValue)
                THEN StringIncludes(fieldValue.s, compareValue.s)
            ELSE IF IsArray(fieldValue) THEN ArrayIncludes(fieldValue.a, compareValue)
            ELSE FALSE
      [] operator = "notContains" ->
            IF IsString(fieldValue) /\ IsString(compareValue)
                THEN ~StringIncludes(fieldValue.s, compareValue.s)
            ELSE IF IsArray(fieldValue) THEN ~ArrayIncludes(fieldValue.a, compareValue)
            ELSE FALSE
      [] operator = "greaterThan" ->
            IsNumber(fieldValue) /\ IsNumber(compareValue) /\ fieldValue.n > compareValue.n
      [] operator = "lessThan" ->
            IsNumber(fieldValue) /\ IsNumber(compareValue) /\ fieldValue.n < compareValue.n
      [] operator = "greaterThanOrEqual" ->
            IsNumber(fieldValue) /\ IsNumber(compareValue) /\ fieldValue.n >= compareValue.n
      [] operator = "lessThanOrEqual" ->
            IsNumber(fieldValue) /\ IsNumber(compareValue) /\ fieldValue.n <= compareValue.n
      [] operator = "isEmpty" -> isEmpty(fieldValue)
      [] operator = "isNotEmpty" -> ~isEmpty(fieldValue)
      [] OTHER -> FALSE

\* evaluateCondition (validation/index.ts)
evaluateCondition(operator, fieldValue, compareValue) ==
    CASE operator = "equals" -> StrictEquals(fieldValue, compareValue)
      [] operator = "notEquals" -> ~StrictEquals(fieldValue, compareValue)
      [] operator = "contains" ->
            IF IsString(fieldValue) /\ IsString(compareValue)
                THEN StringIncludes(fieldValue.s, compareValue.s)
            ELSE IF IsArray(fieldValue) THEN ArrayIncludes(fieldValue.a, compareValue)
            ELSE FALSE
      [] operator = "notContains" ->
            IF IsString(fieldValue) /\ IsString(compareValue)
                THEN ~StringIncludes(fieldValue.s, compareValue.s)
            ELSE IF IsArray(fieldValue) THEN ~ArrayIncludes(fieldValue.a, compareValue)
            ELSE TRUE
      [] operator = "greaterThan" ->
            IsNumber(fieldValue) /\ IsNumber(compareValue) /\ fieldValue.n > compareValue.n
      [] operator = "lessThan" ->
            IsNumber(fieldValue) /\ IsNumber(compareValue) /\ fieldValue.n < compareValue.n
      [] operator = "greaterThanOrEqual" ->
            IsNumber(fieldValue) /\ IsNumber(compareValue) /\ fieldValue.n >= compareValue.n
      [] operator = "lessThanOrEqual" ->
            IsNumber(fieldValue) /\ IsNumber(compareValue) /\ fieldValue.n <= compareValue.n
      [] operator = "isEmpty" -> isEmpty(fieldValue)
      [] operator = "isNotEmpty" -> ~isEmpty(fieldValue)
      [] OTHER -> FALSE

\* formData[id]: the answer, or undefined for a key that is not there
Lookup(formData, id) == IF id \in DOMAIN formData THEN formData[id] ELSE Undefined

\* results = rules.map(rule => evaluateCondition(rule.operator, formData[rule.field], rule.value))
RuleResults(rules, formData) ==
    [i \in 1..Len(rules) |->
        evaluateCondition(rules[i].operator, Lookup(formData, rules[i].field), rules[i].value)]

\* results.every(r => r), results.some(r => r)
Every(results) == \A i \in 1..Len(results) : results[i]

Some(results) == \E i \in 1..Len(results) : results[i]

\* evaluateConditions with an empty rule list taken as "always visible"
evaluateConditions_EmptyRulesVisible(field, formData, allFields) ==
    IF ~HasConditions(field) THEN TRUE
    ELSE LET c == ConditionsOf(field) IN
         IF Len(c.rules) = 0 THEN TRUE
         ELSE LET results == RuleResults(c.rules, formData) IN
              IF c.logic = "AND" THEN Every(results) ELSE Some(results)

\* evaluateConditions with the two logics exchanged
evaluateConditions_LogicSwapped(field, formData, allFields) ==
    IF ~HasConditions(field) THEN TRUE
    ELSE LET c == ConditionsOf(field) IN
         IF Len(c.rules) = 0 THEN c.show
         ELSE LET results == RuleResults(c.rules, formData) IN
              IF c.logic = "AND" THEN Some(results) ELSE Every(results)

\* evaluateConditions that takes show = false as "hide when the rules hold"
evaluateConditions_ShowInverts(field, formData, allFields) ==
    IF ~HasConditions(field) THEN TRUE
    ELSE LET c == ConditionsOf(field) IN
         IF Len(c.rules) = 0 THEN c.show
         ELSE LET results == RuleResults(c.rules, formData)
                  conditionMet == IF c.logic = "AND" THEN Every(results) ELSE Some(results)
              IN IF c.show THEN conditionMet ELSE ~conditionMet

\* evaluateConditions (validation/index.ts); allFields is accepted and unused
evaluateConditions(field, formData, allFields) ==
    IF ~HasConditions(field) THEN TRUE
    ELSE LET c == ConditionsOf(field) IN
         IF Len(c.rules) = 0 THEN c.show
         ELSE LET results == RuleResults(c.rules, formData) IN
              IF c.logic = "AND" THEN Every(results) ELSE Some(results)


(***************************************************************************)
(* Validation.  A message is the text of ERROR_MESSAGES (constants.ts) and *)
(* the number put into it, or a rule's own message.                        *)
(***************************************************************************)
Msg(text, arg) == [text |-> text, arg |-> arg]

NoError == Msg("", 0)

Valid == [valid |-> TRUE, error |-> NoError]

Invalid(msg) == [valid |-> FALSE, error |-> msg]

MSG_REQUIRED == Msg("This field is required", 0)

MSG_INVALID_EMAIL == Msg("Please enter a valid email address", 0)

MSG_INVALID_URL == Msg("Please enter a valid URL", 0)

MSG_MIN_LENGTH(k) == Msg("Minimum length is {} characters", k)

MSG_MAX_LENGTH(k) == Msg("Maximum length is {} characters", k)

MSG_MIN_VALUE(k) == Msg("Minimum value is {}", k)

MSG_MAX_VALUE(k) == Msg("Maximum value is {}", k)

MSG_PATTERN_MISMATCH == Msg("Invalid format", 0)

MSG_FILE_TOO_LARGE(tenthsOfMB) == Msg("File size must be less than {}MB", tenthsOfMB)

MSG_INVALID_FILE_TYPE == Msg("Invalid file type", 0)

MSG_MIN_SELECTIONS(k) == Msg("Please select at least {} option(s)", k)

MSG_MAX_SELECTIONS(k) == Msg("Please select at most {} option(s)", k)

\* rule.message || fallback: an empty message is falsy
MessageOr(rule, fallback) == IF rule.message # "" THEN Msg(rule.message, 0) ELSE fallback

\* /^[^\s@]+@[^\s@]+\.[^\s@]+$/.test(chars)
EmailRegexTest(chars) ==
    \E i \in 1..Len(chars) : \E j \in 1..Len(chars) :
        /\ chars[i] = "@"
        /\ chars[j] = "."
        /\ 1 < i /\ i + 1 < j /\ j < Len(chars)
        /\ \A k \in 1..Len(chars) :
              /\ ~IsWhitespace(chars[k])
              /\ (chars[k] = "@" => k = i)

\* The regular expressions of the model's pattern rules: a source without
\* metacharacters matches as a substring, ^a+$ matches one or more a, and "("
\* does not compile (new RegExp throws).
RegExpMeta == {"^", "$", "+", "(", ")", "*", "?", ".", "[", "]", "\\", "|", "{", "}"}

RegExpCompiles(source) == source # <<"(">>

RegExpTest(source, chars) ==
    IF source = <<"^", "a", "+", "$">>
        THEN Len(chars) > 0 /\ \A k \in 1..Len(chars) : chars[k] = "a"
    ELSE StringIncludes(chars, source)

\* new URL(chars) does not throw: a scheme of letters, a colon, and something after it
IsLetter(c) == c \in {"a", "b", "h", "U", "S"}

UrlParses(chars) ==
    \E i \in 2..Len(chars) :
        /\ chars[i] = ":"
        /\ i < Len(chars)
        /\ \A k \in 1..(i - 1) : IsLetter(chars[k])
        /\ \A k \in 1..Len(chars) : ~IsWhitespace(chars[k])

\* validateRule (validation/index.ts)
validateRule(rule, value, field) ==
    CASE rule.type = "required" ->
            IF isEmpty(value) THEN Invalid(MessageOr(rule, MSG_REQUIRED)) ELSE Valid
      [] rule.type = "minLength" ->
            IF IsString(value) /\ IsNumber(rule.value) /\ Len(value.s) < rule.value.n
                THEN Invalid(MessageOr(rule, MSG_MIN_LENGTH(rule.value.n)))
            ELSE Valid
      [] rule.type = "maxLength" ->
            IF IsString(value) /\ IsNumber(rule.value) /\ Len(value.s) > rule.value.n
                THEN Invalid(MessageOr(rule, MSG_MAX_LENGTH(rule.value.n)))
            ELSE Valid
      [] rule.type = "min" ->
            IF IsNumber(value) /\ IsNumber(rule.value) /\ value.n < rule.value.n
                THEN Invalid(MessageOr(rule, MSG_MIN_VALUE(rule.value.n)))
            ELSE Valid
      [] rule.type = "max" ->
            IF IsNumber(value) /\ IsNumber(rule.value) /\ value.n > rule.value.n
                THEN Invalid(MessageOr(rule, MSG_MAX_VALUE(rule.value.n)))
            ELSE Valid
      [] rule.type = "pattern" ->
            IF IsString(value) /\ IsString(rule.value)
                THEN IF ~RegExpCompiles(rule.value.s) THEN Valid
                     ELSE IF ~RegExpTest(rule.value.s, value.s)
                         THEN Invalid(MessageOr(rule, MSG_PATTERN_MISMATCH))
                     ELSE Valid
            ELSE Valid
      [] rule.type = "email" ->
            IF IsString(value) /\ ~EmailRegexTest(value.s)
                THEN Invalid(MessageOr(rule, MSG_INVALID_EMAIL))
            ELSE Valid
      [] rule.type = "url" ->
            IF IsString(value) /\ ~UrlParses(value.s)
                THEN Invalid(MessageOr(rule, MSG_INVALID_URL))
            ELSE Valid
      [] rule.type = "custom" -> Valid
      [] OTHER -> Valid


(***************************************************************************)
(* A field's config.  An optional attribute is a sequence of length 0      *)
(* (absent: `'x' in config` is false) or 1.  `validation` is the rule list *)
(* (an absent list and an empty one run no rule).                          *)
(***************************************************************************)
Config(required, validation) ==
    [required |-> required, validation |-> validation, min |-> <<>>, max |-> <<>>,
     maxSize |-> <<>>, accept |-> <<>>, minSelections |-> <<>>, maxSelections |-> <<>>]

Rule(type, value, message) == [type |-> type, value |-> value, message |-> message]

\* str.trim()
RECURSIVE TrimStart(_)
TrimStart(chars) ==
    IF Len(chars) > 0 /\ IsWhitespace(chars[1]) THEN TrimStart(Tail(chars)) ELSE chars

RECURSIVE TrimEnd(_)
TrimEnd(chars) ==
    IF Len(chars) > 0 /\ IsWhitespace(chars[Len(chars)])
        THEN TrimEnd(SubSeq(chars, 1, Len(chars) - 1))
    ELSE chars

Trim(chars) == TrimEnd(TrimStart(chars))

\* str.split(','): the pieces between the commas (one empty piece for '')
RECURSIVE SplitFrom(_, _, _)
SplitFrom(chars, i, piece) ==
    IF i > Len(chars) THEN <<piece>>
    ELSE IF chars[i] = "," THEN <<piece>> \o SplitFrom(chars, i + 1, <<>>)
    ELSE SplitFrom(chars, i + 1, Append(piece, chars[i]))

SplitComma(chars) == SplitFrom(chars, 1, <<>>)

\* config.accept.split(',').map(t => t.trim())
AcceptedTypes(accept) ==
    LET pieces == SplitComma(accept) IN [i \in 1..Len(pieces) |-> Trim(pieces[i])]

\* isFileTypeAccepted (validation/index.ts)
isFileTypeAccepted(file, acceptedTypes) ==
    \E i \in 1..Len(acceptedTypes) :
        LET type == acceptedTypes[i] IN
        IF EndsWith(type, <<"/", "*">>)
            THEN StartsWith(file.s, SubSeq(type, 1, Len(type) - 2))
        ELSE file.s = type \/ EndsWith(file.nm, type)

\* parseFloat((maxSize / (1024 * 1024)).toFixed(1)), in tenths of a megabyte
MaxSizeTenthsOfMB(maxSize) == (maxSize * 10 + 524288) \div 1048576

\* the files of a value the file checks look at: the File itself, or the
\* elements of an array that are Files, in order
FilesOf(value) ==
    IF IsFile(value) THEN <<value>>
    ELSE IF IsArray(value) THEN SelectSeq(value.a, IsFile)
    ELSE <<>>

\* a count of selections that is one whatever is selected
Selections_AlwaysOne(value) == 1

\* Array.isArray(value) ? value.length : 0
Selections(value) == IF IsArray(value) THEN Len(value.a) ELSE 0

\* validateFieldType (validation/index.ts)
validateFieldType(field, value) ==
    LET config == field.config IN
    CASE field.type = "email" ->
            IF IsString(value) /\ ~EmailRegexTest(value.s)
                THEN Invalid(MSG_INVALID_EMAIL)
            ELSE Valid
      [] field.type = "number" ->
            IF Len(config.min) = 1 /\ IsNumber(value) /\ value.n < config.min[1]
                THEN Invalid(MSG_MIN_VALUE(config.min[1]))
            ELSE IF Len(config.max) = 1 /\ IsNumber(value) /\ value.n > config.max[1]
                THEN Invalid(MSG_MAX_VALUE(config.max[1]))
            ELSE Valid
      [] field.type = "file" ->
            LET files == FilesOf(value) IN
            IF Len(config.maxSize) = 1
                    /\ \E i \in 1..Len(files) : files[i].n > config.maxSize[1]
                THEN Invalid(MSG_FILE_TOO_LARGE(MaxSizeTenthsOfMB(config.maxSize[1])))
            ELSE IF Len(config.accept) = 1
                    /\ \E i \in 1..Len(files) :
                          ~isFileTypeAccepted(files[i], AcceptedTypes(config.accept[1]))
                THEN Invalid(MSG_INVALID_FILE_TYPE)
            ELSE Valid
      [] field.type = "checkbox" ->
            IF Len(config.minSelections) = 1 /\ Selections(value) < config.minSelections[1]
                THEN Invalid(MSG_MIN_SELECTIONS(config.minSelections[1]))
            ELSE IF Len(config.maxSelections) = 1
                    /\ Selections(value) > config.maxSelections[1]
                THEN Invalid(MSG_MAX_SELECTIONS(config.maxSelections[1]))
            ELSE Valid
      [] OTHER -> Valid

\* the loop of validateField without its early return: the last failure wins
RECURSIVE FirstRuleFailure_LastWins(_, _, _, _)
FirstRuleFailure_LastWins(validation, i, value, field) ==
    IF i > Len(validation) THEN Valid
    ELSE LET later == FirstRuleFailure_LastWins(validation, i + 1, value, field) IN
         IF ~later.valid THEN later ELSE validateRule(validation[i], value, field)

\* the result of the first rule of `validation`, from index i on, that fails;
\* Valid when none does (the for loop of validateField)
RECURSIVE FirstRuleFailure(_, _, _, _)
FirstRuleFailure(validation, i, value, field) ==
    IF i > Len(validation) THEN Valid
    ELSE LET result == validateRule(validation[i], value, field) IN
         IF ~result.valid THEN result
         ELSE FirstRuleFailure(validation, i + 1, value, field)

\* 'required' in config ? config.required : false
RequiredOf(config) == Len(config.required) = 1 /\ config.required[1]

\* validateField with the declared rules run before the optional-and-empty return
validateField_RulesBeforeEmpty(field, value) ==
    LET config == field.config
        ruleResult == FirstRuleFailure(config.validation, 1, value, field) IN
    IF RequiredOf(config) /\ isEmpty(value) THEN Invalid(MSG_REQUIRED)
    ELSE IF ~ruleResult.valid THEN ruleResult
    ELSE IF isEmpty(value) THEN Valid
    ELSE validateFieldType(field, value)

\* validateField (validation/index.ts); allFormData is accepted and unused
validateField(field, value) ==
    LET config == field.config IN
    IF RequiredOf(config) /\ isEmpty(value) THEN Invalid(MSG_REQUIRED)
    ELSE IF isEmpty(value) THEN Valid
    ELSE LET ruleResult == FirstRuleFailure(config.validation, 1, value, field) IN
         IF ~ruleResult.valid THEN ruleResult
         ELSE validateFieldType(field, value)

\* validateForm skips a field: `hidden` and `section` fields, and a field with
\* conditions that evaluateConditions finds not visible
SkipsField_TypeOnly(field, formData, allFields) ==
    field.type = "hidden" \/ field.type = "section"

SkipsField(field, formData, allFields) ==
    \/ field.type = "hidden" \/ field.type = "section"
    \/ HasConditions(field) /\ ~evaluateConditions(field, formData, allFields)

\* the errors validateForm has collected after the fields from index i on
\* (errors[field.id] = result.error, a later field with the same id overwrites)
RECURSIVE ValidateFrom(_, _, _, _)
ValidateFrom(fs, i, formData, errors) ==
    IF i > Len(fs) THEN errors
    ELSE LET field == fs[i] IN
         IF SkipsField(field, formData, fs)
             THEN ValidateFrom(fs, i + 1, formData, errors)
         ELSE LET result == validateField(field, Lookup(formData, field.id)) IN
              IF ~result.valid /\ result.error.text # ""
                  THEN ValidateFrom(fs, i + 1, formData,
                          [id \in DOMAIN errors \cup {field.id} |->
                              IF id = field.id THEN result.error ELSE errors[id]])
              ELSE ValidateFrom(fs, i + 1, formData, errors)

\* validateForm that reports every form as valid
validateForm_AlwaysValid(fs, formData) ==
    [valid |-> TRUE, errors |-> ValidateFrom(fs, 1, formData, <<>>)]

\* validateForm (validation/index.ts): errors is a map from field id to message
validateForm(fs, formData) ==
    LET errors == ValidateFrom(fs, 1, formData, <<>>) IN
    [valid |-> DOMAIN errors = {}, errors |-> errors]


(***************************************************************************)
(* FieldSchema.                                                            *)
(***************************************************************************)
Field(id, type, label, config, conditions, order) ==
    [id |-> id, type |-> type, label |-> label, config |-> config,
     conditions |-> conditions, order |-> order]

CondRule(fieldId, operator, value) ==
    [field |-> fieldId, operator |-> operator, value |-> value]

(***************************************************************************)
(* The store before anything has happened (createEmptyFormSchema), and the *)
(* engine while no function is applied.                                    *)
(***************************************************************************)
\* constants: DEFAULT_FORM_TITLE, and the settings createEmptyFormSchema gives
DEFAULT_FORM_TITLE == "Untitled Form"

DefaultSettings ==
    [submitButton |-> [text |-> "Submit", enabled |-> TRUE],
     successMessage |-> "Thank you! Your form has been submitted successfully."]

NoOp == [name |-> "init", fieldId |-> 0, from |-> 0, to |-> 0]

StoreInit ==
    /\ fields = <<>>
    /\ updatedAt = 0
    /\ selectedFieldId = 0
    /\ nextId = 1
    /\ now = 0
    /\ lastOp = NoOp
    /\ before = <<>>
    /\ title = DEFAULT_FORM_TITLE
    /\ settings = DefaultSettings
    /\ storeFormData = <<>>

NoCall == [op |-> "none"]

\* no key of localStorage holds anything
NoStorage == <<>>

EngineIdle == call = NoCall /\ ret = NoCall /\ localStorage = NoStorage

\* no function is in the middle of its execution
NoRun == [pc |-> "none"]

\* useState({}) twice: the renderer before any answer is given
RendererIdle == localFormData = <<>> /\ localErrors = <<>>

(***************************************************************************)
(* SpecForm: evaluateConditions and validateForm applied to a form of two  *)
(* fields, the second of which may depend on either, and to the answers.   *)
(***************************************************************************)
S_US == <<"U", "S">>

S_CA == <<"C", "A">>

FormFieldIds == {1, 2}

FormValueSamples == {Undefined, Str(S_US), Str(S_CA), Num(1)}

FormOperatorSamples == {"equals", "notEquals", "contains", "greaterThan", "isEmpty"}

\* the literal a rule of the samples compares with
CompareValueFor(operator) ==
    IF operator = "greaterThan" THEN Num(0)
    ELSE IF operator = "isEmpty" THEN Undefined
    ELSE Str(S_US)

FormCondRuleSamples ==
    {CondRule(f, op, CompareValueFor(op)) : f \in FormFieldIds, op \in FormOperatorSamples}

FormConditionSamples ==
    {NoConditions} \cup
    {Conditions(show, rules, logic) :
        show \in BOOLEAN,
        rules \in SeqsUpTo(FormCondRuleSamples, MaxCondRules),
        logic \in {"AND", "OR"}}

\* the `country` select of the end-to-end scenario
CountryField == Field(1, "select", <<"Country">>, Config(<<FALSE>>, <<>>), NoConditions, 0)

\* the dependent field: `state`, or a section or hidden field in its place
StateFieldSamples ==
    {Field(2, type, <<"State">>, Config(<<required>>, <<>>), conditions, 1) :
        type \in {"text", "section", "hidden"},
        required \in BOOLEAN,
        conditions \in FormConditionSamples}

\* a field either of which may fail: any of three types, required or not, with
\* or without a length rule, always shown, never shown, or shown when the
\* first field is US
AnyFieldSamples(id) ==
    {Field(id, type, <<"Field">>, Config(<<required>>, validation), conditions, id - 1) :
        type \in {"text", "section", "hidden"},
        required \in BOOLEAN,
        validation \in {<<>>, <<Rule("minLength", Num(3), "Too short")>>},
        conditions \in {NoConditions, Conditions(FALSE, <<>>, "AND"),
                        Conditions(TRUE, <<CondRule(1, "equals", Str(S_US))>>, "AND")}}

\* the forms of the model: the scenario's two fields, or two fields of any kind
FormListSamples ==
    {<<CountryField, f>> : f \in StateFieldSamples}
    \cup {<<f1, f2>> : f1 \in AnyFieldSamples(1), f2 \in AnyFieldSamples(2)}

InitForm ==
    /\ StoreInit
    /\ \E fs \in FormListSamples : \E formData \in [FormFieldIds -> FormValueSamples] :
          call = [op |-> "form", fields |-> fs, formData |-> formData]
    /\ ret = NoCall
    /\ localStorage = NoStorage
    /\ RendererIdle
    /\ run = NoRun

\* visible = evaluateConditions(field, formData, fields), for the field at index i
CallEvaluateConditions(i) ==
    /\ call.op = "form"
    /\ ret = NoCall
    /\ ret' = [op |-> "evaluateConditions", index |-> i,
               visible |-> evaluateConditions(call.fields[i], call.formData, call.fields)]
    /\ UNCHANGED <<call, storeVars, localStorage, rendererVars, run>>

\* result = validateForm(fields, formData)
CallValidateForm ==
    /\ call.op = "form"
    /\ ret = NoCall
    /\ ret' = [op |-> "validateForm", result |-> validateForm(call.fields, call.formData)]
    /\ UNCHANGED <<call, storeVars, localStorage, rendererVars, run>>

NextForm ==
    \/ \E i \in FormFieldIds : CallEvaluateConditions(i)
    \/ CallValidateForm

SpecForm == InitForm /\ [][NextForm]_vars


(***************************************************************************)
(* Claims checked under SpecForm.                                          *)
(***************************************************************************)
EvaluatedField == call.fields[ret.index]

\* what one rule says of the answers, by the operator table of the evaluator
RuleHolds(rule, formData) ==
    evaluateCondition(rule.operator, Lookup(formData, rule.field), rule.value)

\* C9 - Visibility base cases: evaluateConditions returns true for a field
\* without conditions, and exactly conditions.show for a field whose rule list
\* is empty, whatever the answers are.
C9_VisibilityBaseCases ==
    ret.op = "evaluateConditions" =>
        /\ ~HasConditions(EvaluatedField) => ret.visible = TRUE
        /\ (HasConditions(EvaluatedField) /\ Len(ConditionsOf(EvaluatedField).rules) = 0)
              => ret.visible = ConditionsOf(EvaluatedField).show

\* a field with rules = [] and show = false was evaluated, with an answer given
C9_Witness ==
    /\ ret.op = "evaluateConditions"
    /\ HasConditions(EvaluatedField)
    /\ ConditionsOf(EvaluatedField).rules = <<>>
    /\ ConditionsOf(EvaluatedField).show = FALSE
    /\ call.formData[1] = Str(S_US)
    /\ ret.visible = FALSE

\* C10 - AND/OR composition: with a non-empty rule list the result is the
\* conjunction of the per-rule results (each rule against formData[rule.field])
\* when logic is AND, and their disjunction when logic is OR.
C10_AndOrComposition ==
    (ret.op = "evaluateConditions" /\ HasConditions(EvaluatedField)
            /\ Len(ConditionsOf(EvaluatedField).rules) > 0) =>
        LET c == ConditionsOf(EvaluatedField) IN
        /\ c.logic = "AND" =>
              (ret.visible <=> \A k \in 1..Len(c.rules) : RuleHolds(c.rules[k], call.formData))
        /\ c.logic = "OR" =>
              (ret.visible <=> \E k \in 1..Len(c.rules) : RuleHolds(c.rules[k], call.formData))

\* two rules on two different fields, exactly one of which holds, under OR
C10_Witness ==
    /\ ret.op = "evaluateConditions"
    /\ HasConditions(EvaluatedField)
    /\ LET c == ConditionsOf(EvaluatedField) IN
       /\ Len(c.rules) = 2
       /\ c.logic = "OR"
       /\ c.rules[1].field # c.rules[2].field
       /\ RuleHolds(c.rules[1], call.formData)
       /\ ~RuleHolds(c.rules[2], call.formData)
       /\ ret.visible = TRUE

\* the `state` field of the end-to-end scenario: a required text field shown
\* only when country equals US
IsScenarioState(f) ==
    /\ f.type = "text"
    /\ RequiredOf(f.config)
    /\ HasConditions(f)
    /\ ConditionsOf(f).rules = <<CondRule(1, "equals", Str(S_US))>>

\* C5 - An invisible field can never block submission: validateForm's errors
\* have no entry for a field that has conditions which evaluate to not visible;
\* in the scenario, the required empty `state` field has an error exactly when
\* country is US.
C5_InvisibleNeverBlocks ==
    ret.op = "validateForm" =>
        /\ \A i \in 1..Len(call.fields) :
              (HasConditions(call.fields[i])
                  /\ ~evaluateConditions(call.fields[i], call.formData, call.fields))
              => call.fields[i].id \notin DOMAIN ret.result.errors
        /\ (IsScenarioState(call.fields[2]) /\ isEmpty(call.formData[2])) =>
              (2 \in DOMAIN ret.result.errors <=> call.formData[1] = Str(S_US))

\* the scenario with country = CA: `state` is required and empty, and not reported
C5_Witness ==
    /\ ret.op = "validateForm"
    /\ IsScenarioState(call.fields[2])
    /\ call.formData[1] = Str(S_CA)
    /\ call.formData[2] = Undefined
    /\ 2 \notin DOMAIN ret.result.errors
    /\ ret.result.valid

\* whether validateForm has to report the field: it is neither a section nor
\* hidden, it is visible for the answers, and its own answer is invalid
MustReport(f, fs, formData) ==
    /\ f.type \notin {"section", "hidden"}
    /\ evaluateConditions(f, formData, fs)
    /\ ~validateField(f, formData[f.id]).valid

\* C17 - validateForm aggregate: for a field list with unique ids, errors has
\* a key for field f exactly when f is not of type section or hidden, f is
\* visible for formData and validateField(f, formData[f.id]) is invalid; the
\* value stored is that result's message; valid is true exactly when errors
\* is empty; the failures are a returned value.
C17_ValidateFormAggregate ==
    ret.op = "validateForm" =>
        /\ DOMAIN ret.result.errors \subseteq {call.fields[i].id : i \in 1..Len(call.fields)}
        /\ \A i \in 1..Len(call.fields) :
              LET f == call.fields[i] IN
              /\ f.id \in DOMAIN ret.result.errors
                    <=> MustReport(f, call.fields, call.formData)
              /\ f.id \in DOMAIN ret.result.errors =>
                    ret.result.errors[f.id] = validateField(f, call.formData[f.id]).error
        /\ ret.result.valid \in BOOLEAN
        /\ ret.result.valid <=> DOMAIN ret.result.errors = {}

\* both fields fail, each with its own message: the first is required and
\* unanswered, the second is answered too short
C17_Witness ==
    /\ ret.op = "validateForm"
    /\ call.formData[1] = Undefined
    /\ call.formData[2] = Str(S_CA)
    /\ DOMAIN ret.result.errors = {1, 2}
    /\ ret.result.errors[1] = MSG_REQUIRED
    /\ ret.result.errors[2] = Msg("Too short", 0)
    /\ ~ret.result.valid


\* the two answer maps agree on every field a rule of these names
AgreeOnNamed(rules, formData, other) ==
    \A k \in 1..Len(rules) : Lookup(other, rules[k].field) = Lookup(formData, rules[k].field)

\* C30 - For a field whose rule list is not empty the result of
\* evaluateConditions does not depend on conditions.show (the field with the
\* other show is visible for exactly the same formData), nor on the formData
\* entries of fields that none of its rules name.
C30_ShowAndUnnamedIrrelevant ==
    (ret.op = "evaluateConditions" /\ HasConditions(EvaluatedField)
            /\ Len(ConditionsOf(EvaluatedField).rules) > 0) =>
        \A show \in BOOLEAN : \A other \in [FormFieldIds -> FormValueSamples] :
            AgreeOnNamed(ConditionsOf(EvaluatedField).rules, call.formData, other) =>
                evaluateConditions([EvaluatedField EXCEPT !.conditions[1].show = show],
                                   other, call.fields) = ret.visible

\* a field with show = false and one rule, on the first field, was evaluated
\* while it has an answer of its own: it is visible, its rule holding
C30_Witness ==
    /\ ret.op = "evaluateConditions"
    /\ ret.index = 2
    /\ HasConditions(EvaluatedField)
    /\ ConditionsOf(EvaluatedField).show = FALSE
    /\ Len(ConditionsOf(EvaluatedField).rules) = 1
    /\ ConditionsOf(EvaluatedField).rules[1].field = 1
    /\ ConditionsOf(EvaluatedField).rules[1].operator = "equals"
    /\ call.formData[2] # Undefined
    /\ ret.visible


(***************************************************************************)
(* SpecValidate: validateField applied to one field and one value.         *)
(***************************************************************************)
S_Blank == <<" ">>

S_A == <<"a">>

S_Email == <<"a", "@", "b", ".", "a">>

S_Url == <<"h", ":", "a", "a", "a">>

ValidateValueSamples ==
    {Undefined, Null, Str(<<>>), Str(S_Blank), Str(S_A), Str(S_Email), Str(S_Url),
     Num(1), Num(5), Bool(TRUE), Arr(<<>>), Arr(<<Str(S_A)>>),
     Arr(<<Str(S_A), Str(S_Email), Str(S_Url)>>),
     File(<<"f", ".", "p", "d", "f">>, <<"i", "m", "g", "/", "p", "n", "g">>, 5)}

ValidationRuleSamples ==
    {Rule("required", Undefined, "Answer this"),
     Rule("minLength", Num(2), ""),
     Rule("minLength", Num(3), "Too short"),
     Rule("maxLength", Num(3), ""),
     Rule("min", Num(2), ""),
     Rule("max", Num(3), ""),
     Rule("pattern", Str(<<"^", "a", "+", "$">>), ""),
     Rule("pattern", Str(<<"(">>), ""),
     Rule("email", Undefined, ""),
     Rule("url", Undefined, "Not a link"),
     Rule("custom", Undefined, "")}

\* the type-specific limits a field of the samples carries
TypeLimits(type) ==
    CASE type = "number" -> [min |-> <<2>>, max |-> <<3>>, maxSize |-> <<>>, accept |-> <<>>,
                             minSelections |-> <<>>, maxSelections |-> <<>>]
      [] type = "checkbox" -> [min |-> <<>>, max |-> <<>>, maxSize |-> <<>>, accept |-> <<>>,
                               minSelections |-> <<1>>, maxSelections |-> <<2>>]
      [] type = "file" -> [min |-> <<>>, max |-> <<>>, maxSize |-> <<4>>,
                           accept |-> <<<<"i", "m", "g", "/", "*", ",", " ", ".", "p", "d", "f">>>>,
                           minSelections |-> <<>>, maxSelections |-> <<>>]
      [] OTHER -> [min |-> <<>>, max |-> <<>>, maxSize |-> <<>>, accept |-> <<>>,
                   minSelections |-> <<>>, maxSelections |-> <<>>]

ValidateTypeSamples == {"text", "email", "number", "checkbox", "file"}

ValidateFieldSamples ==
    {Field(1, type, <<"Field">>,
           [required |-> required, validation |-> validation,
            min |-> TypeLimits(type).min, max |-> TypeLimits(type).max,
            maxSize |-> TypeLimits(type).maxSize, accept |-> TypeLimits(type).accept,
            minSelections |-> TypeLimits(type).minSelections,
            maxSelections |-> TypeLimits(type).maxSelections],
           NoConditions, 0) :
        type \in ValidateTypeSamples,
        required \in {<<>>, <<TRUE>>, <<FALSE>>},
        validation \in SeqsUpTo(ValidationRuleSamples, MaxValidationRules)}

InitValidate ==
    /\ StoreInit
    /\ \E f \in ValidateFieldSamples : \E v \in ValidateValueSamples :
          call = [op |-> "validate", field |-> f, value |-> v]
    /\ ret = NoCall
    /\ localStorage = NoStorage
    /\ RendererIdle
    /\ run = NoRun

\* result = validateField(field, value)
CallValidateField ==
    /\ call.op = "validate"
    /\ ret = NoCall
    /\ ret' = [op |-> "validateField", result |-> validateField(call.field, call.value)]
    /\ UNCHANGED <<call, storeVars, localStorage, rendererVars, run>>

NextValidate == CallValidateField

SpecValidate == InitValidate /\ [][NextValidate]_vars


(***************************************************************************)
(* Claims checked under SpecValidate.                                      *)
(***************************************************************************)
\* the emptiness rule as the specification words it: null, undefined, a string
\* that is blank after trimming, or a zero-length array
EmptyAnswer(v) ==
    \/ v.t = "null"
    \/ v.t = "undefined"
    \/ v.t = "string" /\ \A k \in DOMAIN v.s : v.s[k] = " "
    \/ v.t = "array" /\ v.a = <<>>

MarkedRequired(f) == f.config.required = <<TRUE>>

\* C6 - Required and empty: for a field marked required, an empty value gives
\* invalid with the required-field message, whatever rules and type limits
\* the field declares; a required text field without rules and with a
\* non-empty value is valid.
C6_RequiredAndEmpty ==
    (ret.op = "validateField" /\ MarkedRequired(call.field)) =>
        /\ EmptyAnswer(call.value) =>
              ret.result = [valid |-> FALSE, error |-> Msg("This field is required", 0)]
        /\ (~EmptyAnswer(call.value) /\ call.field.type = "text"
                /\ call.field.config.validation = <<>>)
              => ret.result.valid

\* a required field with a `required` rule of its own message and a blank
\* string: the required-field message is the answer
C6_Witness ==
    /\ ret.op = "validateField"
    /\ MarkedRequired(call.field)
    /\ Len(call.field.config.validation) > 0
    /\ call.field.config.validation[1].type = "required"
    /\ call.value = Str(S_Blank)
    /\ ~ret.result.valid
    /\ ret.result.error = MSG_REQUIRED

\* C7 - Optional and absent is always valid: for a field not marked required
\* every empty value is valid, whatever the type, the declared rules (a rule
\* of kind `required` among them) and the type-specific limits.
C7_OptionalAndAbsent ==
    (ret.op = "validateField" /\ ~MarkedRequired(call.field) /\ EmptyAnswer(call.value))
        => ret.result = [valid |-> TRUE, error |-> NoError]

\* an optional checkbox group with minSelections = 1, a `required` rule and
\* nothing selected
C7_Witness ==
    /\ ret.op = "validateField"
    /\ call.field.config.required = <<FALSE>>
    /\ call.field.type = "checkbox"
    /\ call.field.config.minSelections = <<1>>
    /\ \E k \in DOMAIN call.field.config.validation :
          call.field.config.validation[k].type = "required"
    /\ call.value = Arr(<<>>)
    /\ ret.result.valid

\* rule k of the field fails on the value
RuleFails(f, k, v) == ~validateRule(f.config.validation[k], v, f).valid

\* the message ERROR_MESSAGES gives a failing rule of each kind
DefaultMessage(rule) ==
    CASE rule.type = "required" -> Msg("This field is required", 0)
      [] rule.type = "minLength" -> Msg("Minimum length is {} characters", rule.value.n)
      [] rule.type = "maxLength" -> Msg("Maximum length is {} characters", rule.value.n)
      [] rule.type = "min" -> Msg("Minimum value is {}", rule.value.n)
      [] rule.type = "max" -> Msg("Maximum value is {}", rule.value.n)
      [] rule.type = "pattern" -> Msg("Invalid format", 0)
      [] rule.type = "email" -> Msg("Please enter a valid email address", 0)
      [] rule.type = "url" -> Msg("Please enter a valid URL", 0)
      [] OTHER -> NoError

\* C8 - First failure wins: for a non-empty value the result is that of the
\* first declared rule, in list order, that fails (its own message, or the
\* default message of its kind), never a later rule's; the field-type check
\* decides only when every declared rule passes.
C8_FirstFailureWins ==
    (ret.op = "validateField" /\ ~EmptyAnswer(call.value)) =>
        LET f == call.field
            rules == f.config.validation
            failing == {k \in DOMAIN rules : RuleFails(f, k, call.value)}
        IN
        /\ failing # {} =>
              LET first == CHOOSE k \in failing : \A j \in failing : k <= j IN
              /\ ~ret.result.valid
              /\ ret.result.error =
                    IF rules[first].message # "" THEN Msg(rules[first].message, 0)
                    ELSE DefaultMessage(rules[first])
        /\ failing = {} => ret.result = validateFieldType(f, call.value)

\* two declared rules that both fail, with different messages, on a field whose
\* type check fails too: the first rule's message is returned
C8_Witness ==
    /\ ret.op = "validateField"
    /\ call.field.type = "email"
    /\ call.value = Str(S_A)
    /\ Len(call.field.config.validation) = 2
    /\ RuleFails(call.field, 1, call.value)
    /\ RuleFails(call.field, 2, call.value)
    /\ validateRule(call.field.config.validation[1], call.value, call.field)
          # validateRule(call.field.config.validation[2], call.value, call.field)
    /\ ~validateFieldType(call.field, call.value).valid
    /\ ret.result = validateRule(call.field.config.validation[1], call.value, call.field)

\* a checkbox field, and whether the number of selected values of the answer
\* is outside the bounds its config gives (no array: nothing selected)
IsCheckbox(f) == f.type = "checkbox"

SelectedCount(v) == IF IsArray(v) THEN Len(v.a) ELSE 0

OutOfSelectionBounds(f, v) ==
    \/ Len(f.config.minSelections) = 1 /\ SelectedCount(v) < f.config.minSelections[1]
    \/ Len(f.config.maxSelections) = 1 /\ SelectedCount(v) > f.config.maxSelections[1]

\* C16 - Checkbox-group selection bounds, as stated: validateField returns
\* invalid for a checkbox field whenever the number of selected values is
\* below minSelections or above maxSelections, for every count including zero.
C16_SelectionBoundsAlways ==
    (IsCheckbox(call.field) /\ ret.op = "validateField"
                            /\ OutOfSelectionBounds(call.field, call.value)) =>
        ~ret.result.valid

\* C16 - Checkbox-group selection bounds, amended: out of bounds is invalid
\* whenever the answer is not empty or the field is required; an optional
\* checkbox field with an empty answer (nothing selected) is valid even when
\* minSelections is positive.
C16_SelectionBounds ==
    (IsCheckbox(call.field) /\ ret.op = "validateField") =>
        /\ (OutOfSelectionBounds(call.field, call.value)
              /\ (~EmptyAnswer(call.value) \/ MarkedRequired(call.field)))
           => ~ret.result.valid
        /\ (EmptyAnswer(call.value) /\ ~MarkedRequired(call.field)) => ret.result = Valid

\* three values are selected where two are allowed, no rule is declared, and
\* the result is the maximum-selections failure
C16_Witness ==
    /\ IsCheckbox(call.field)
    /\ ret.op = "validateField"
    /\ call.field.config.validation = <<>>
    /\ call.field.config.maxSelections = <<2>>
    /\ SelectedCount(call.value) = 3
    /\ ret.result = Invalid(MSG_MAX_SELECTIONS(2))


\* every declared rule of the field passes on the value
AllRulesPass(f, v) == \A k \in DOMAIN f.config.validation : ~RuleFails(f, k, v)

\* C25 - The only field-type-specific checks validateField applies after the
\* declared rules are those of number, file and checkbox fields: for a field
\* of any other type, a non-empty value that passes every declared rule (in
\* particular when there is none) is valid.
C25_TypeChecksOnlyThree ==
    (/\ ret.op = "validateField"
     /\ call.field.type \notin {"number", "file", "checkbox"}
     /\ ~EmptyAnswer(call.value)
     /\ AllRulesPass(call.field, call.value)) => ret.result.valid

(***************************************************************************)
(* detectCircularDependencies (schema/utils.ts).                           *)
(***************************************************************************)
\* the rules of a field (field.conditions?.rules), none when it has no conditions
RulesOf(field) == IF HasConditions(field) THEN ConditionsOf(field).rules ELSE <<>>

\* the Set built by deps.add(rule.field) over the rules from index i on, as
\* the sequence a for-of walks: each id once, in order of first insertion
RECURSIVE DepsFrom(_, _, _)
DepsFrom(rules, i, deps) ==
    IF i > Len(rules) THEN deps
    ELSE IF rules[i].field \in Range(deps) THEN DepsFrom(rules, i + 1, deps)
    ELSE DepsFrom(rules, i + 1, Append(deps, rules[i].field))

\* dependencies: Map from field id to its deps (a later field with the same
\* id replaces an earlier one)
Dependencies(fs) ==
    [id \in {fs[i].id : i \in 1..Len(fs)} |->
        LET last == CHOOSE i \in 1..Len(fs) :
                        fs[i].id = id /\ \A j \in 1..Len(fs) : fs[j].id = id => j <= i
        IN DepsFrom(RulesOf(fs[last]), 1, <<>>)]

\* the traversal's state: the two marker sets and the ids recorded so far
Traversal(visited, recursionStack, cycles) ==
    [visited |-> visited, recursionStack |-> recursionStack, cycles |-> cycles]

\* hasCycle with the two tests exchanged: a visited id returns false before
\* recursionStack is looked at
RECURSIVE hasCycle_VisitedFirst(_, _, _)
RECURSIVE VisitDeps_VisitedFirst(_, _, _, _)
hasCycle_VisitedFirst(dependencies, fieldId, st) ==
    IF fieldId \in st.visited THEN [st |-> st, found |-> FALSE]
    ELSE IF fieldId \in st.recursionStack
        THEN [st |-> Traversal(st.visited, st.recursionStack, Append(st.cycles, fieldId)),
              found |-> TRUE]
    ELSE LET entered == Traversal(st.visited \cup {fieldId},
                                  st.recursionStack \cup {fieldId}, st.cycles)
             deps == IF fieldId \in DOMAIN dependencies THEN dependencies[fieldId] ELSE <<>>
             after == VisitDeps_VisitedFirst(dependencies, deps, 1, entered)
         IN IF after.found THEN after
            ELSE [st |-> Traversal(after.st.visited,
                                   after.st.recursionStack \ {fieldId}, after.st.cycles),
                  found |-> FALSE]

VisitDeps_VisitedFirst(dependencies, deps, i, st) ==
    IF i > Len(deps) THEN [st |-> st, found |-> FALSE]
    ELSE LET r == hasCycle_VisitedFirst(dependencies, deps[i], st) IN
         IF r.found THEN r ELSE VisitDeps_VisitedFirst(dependencies, deps, i + 1, r.st)

\* hasCycle(fieldId), on the traversal state st: the state it leaves and what
\* it returns.  A call that returns true returns at once, and leaves fieldId
\* and its callers in recursionStack.
RECURSIVE hasCycle(_, _, _)
RECURSIVE VisitDeps(_, _, _, _)
hasCycle(dependencies, fieldId, st) ==
    IF fieldId \in st.recursionStack
        THEN [st |-> Traversal(st.visited, st.recursionStack, Append(st.cycles, fieldId)),
              found |-> TRUE]
    ELSE IF fieldId \in st.visited THEN [st |-> st, found |-> FALSE]
    ELSE LET entered == Traversal(st.visited \cup {fieldId},
                                  st.recursionStack \cup {fieldId}, st.cycles)
             deps == IF fieldId \in DOMAIN dependencies THEN dependencies[fieldId] ELSE <<>>
             after == VisitDeps(dependencies, deps, 1, entered)
         IN IF after.found THEN after
            ELSE [st |-> Traversal(after.st.visited,
                                   after.st.recursionStack \ {fieldId}, after.st.cycles),
                  found |-> FALSE]

\* for (const dep of deps) if (hasCycle(dep)) return true, from index i on
VisitDeps(dependencies, deps, i, st) ==
    IF i > Len(deps) THEN [st |-> st, found |-> FALSE]
    ELSE LET r == hasCycle(dependencies, deps[i], st) IN
         IF r.found THEN r ELSE VisitDeps(dependencies, deps, i + 1, r.st)

\* fields.forEach(field => { if (!visited.has(field.id)) hasCycle(field.id) }), from index i on
RECURSIVE VisitRoots(_, _, _, _)
VisitRoots(dependencies, fs, i, st) ==
    IF i > Len(fs) THEN st
    ELSE IF fs[i].id \in st.visited THEN VisitRoots(dependencies, fs, i + 1, st)
    ELSE VisitRoots(dependencies, fs, i + 1, hasCycle(dependencies, fs[i].id, st).st)

\* detectCircularDependencies: the ids pushed to `cycles`, in order
detectCircularDependencies(fs) ==
    VisitRoots(Dependencies(fs), fs, 1, Traversal({}, {}, <<>>)).cycles

(***************************************************************************)
(* SpecCycle: a field list is built, a field or a rule at a time, and      *)
(* detectCircularDependencies is applied to it.  A rule may name a field   *)
(* of the list, or an id that no field has.                                *)
(***************************************************************************)
GraphIds == 1..(MaxGraphFields + 1)

GraphRuleCount(fs) ==
    LET RECURSIVE Count(_)
        Count(i) == IF i > Len(fs) THEN 0 ELSE Len(RulesOf(fs[i])) + Count(i + 1)
    IN Count(1)

InitCycle ==
    /\ StoreInit
    /\ call = [op |-> "graph", fields |-> <<>>]
    /\ ret = NoCall
    /\ localStorage = NoStorage
    /\ RendererIdle
    /\ run = NoRun

\* a further field, without conditions
GraphAddField ==
    /\ call.op = "graph"
    /\ ret = NoCall
    /\ Len(call.fields) < MaxGraphFields
    /\ call' = [call EXCEPT !.fields =
                  Append(@, Field(Len(@) + 1, "text", <<"Field">>, Config(<<FALSE>>, <<>>),
                                  NoConditions, Len(@)))]
    /\ UNCHANGED <<ret, storeVars, localStorage, rendererVars, run>>

\* a further rule of the last field, naming `target`
GraphAddRule(target) ==
    /\ call.op = "graph"
    /\ ret = NoCall
    /\ Len(call.fields) > 0
    /\ GraphRuleCount(call.fields) < MaxGraphRules
    /\ LET n == Len(call.fields)
           rule == CondRule(target, "isNotEmpty", Undefined)
       IN call' = [call EXCEPT !.fields[n].conditions =
                      Conditions(TRUE, Append(RulesOf(call.fields[n]), rule), "AND")]
    /\ UNCHANGED <<ret, storeVars, localStorage, rendererVars, run>>

\* cycles = detectCircularDependencies(fields)
CallDetect ==
    /\ call.op = "graph"
    /\ ret = NoCall
    /\ ret' = [op |-> "detect", cycles |-> detectCircularDependencies(call.fields)]
    /\ UNCHANGED <<call, storeVars, localStorage, rendererVars, run>>

NextCycle ==
    \/ GraphAddField
    \/ \E target \in GraphIds : GraphAddRule(target)
    \/ CallDetect

SpecCycle == InitCycle /\ [][NextCycle]_vars


(***************************************************************************)
(* Claims checked under SpecCycle.                                         *)
(***************************************************************************)
\* the ids the rules of the fields with an id in S name
DependsOn(fs, S) ==
    {RulesOf(fs[i])[k].field : <<i, k>> \in
        {p \in (1..Len(fs)) \X (1..MaxGraphRules + 1) :
            fs[p[1]].id \in S /\ p[2] <= Len(RulesOf(fs[p[1]]))}}

\* everything S leads to along depends-on edges, S included
RECURSIVE LeadsTo(_, _)
LeadsTo(fs, S) ==
    LET T == S \cup DependsOn(fs, S) IN IF T = S THEN S ELSE LeadsTo(fs, T)

\* following the depends-on edges from id leads back to id
OnCycle(fs, id) == id \in LeadsTo(fs, DependsOn(fs, {id}))

GraphHasCycle(fs) == \E i \in 1..Len(fs) : OnCycle(fs, fs[i].id)

\* the dependencies of the list are exactly these edges
GraphIs(fs, edges) ==
    /\ Len(fs) = 3
    /\ \A i \in 1..3 : Range(RulesOf(fs[i])) =
          {CondRule(e[2], "isNotEmpty", Undefined) : e \in {d \in edges : d[1] = i}}

\* C3 - Cycle detection is exact about existence: the result is non-empty
\* exactly when the dependency graph has a cycle, a self-referencing rule
\* being a one-node cycle; so A->B->C->A gives a non-empty result, A->B, B->C
\* an empty one, and a list without rules an empty one.
C3_CycleExistence ==
    ret.op = "detect" =>
        /\ ret.cycles # <<>> <=> GraphHasCycle(call.fields)
        /\ GraphIs(call.fields, {<<1, 2>>, <<2, 3>>, <<3, 1>>}) => ret.cycles # <<>>
        /\ GraphIs(call.fields, {<<1, 2>>, <<2, 3>>}) => ret.cycles = <<>>
        /\ GraphRuleCount(call.fields) = 0 => ret.cycles = <<>>

\* A->B->C->A was given and the result names one of the three
C3_Witness ==
    /\ ret.op = "detect"
    /\ GraphIs(call.fields, {<<1, 2>>, <<2, 3>>, <<3, 1>>})
    /\ ret.cycles # <<>>
    /\ Range(ret.cycles) \subseteq {1, 2, 3}

\* C4 - Every field id returned by detectCircularDependencies is a cycle
\* participant: following depends-on edges from it leads back to it.
C4_ReturnedIdsOnCycle ==
    ret.op = "detect" => \A k \in DOMAIN ret.cycles : OnCycle(call.fields, ret.cycles[k])


(***************************************************************************)
(* Schema utilities used by the store (schema/utils.ts, fieldRegistry.ts). *)
(***************************************************************************)
\* getFieldDefinition(type).label and .defaultConfig, for the types the store adds
RegistryLabel(type) == IF type = "email" THEN "Email" ELSE "Text Input"

RegistryDefaultConfig(type) ==
    IF type = "email"
        THEN Config(<<FALSE>>, <<Rule("email", Undefined, "Please enter a valid email address")>>)
    ELSE Config(<<FALSE>>, <<>>)

\* createFieldSchema(type, order), with the id uuidv4() returned
createFieldSchema(type, order, id) ==
    Field(id, type, <<RegistryLabel(type)>>, RegistryDefaultConfig(type), NoConditions, order)

\* cloneField that leaves the label as it is
cloneField_SameLabel(field, newOrder, id) == [field EXCEPT !.id = id, !.order = newOrder]

\* cloneField(field, newOrder), with the id uuidv4() returned: the label gets
\* the suffix " (Copy)", everything else is the source's
cloneField(field, newOrder, id) ==
    [field EXCEPT !.id = id, !.order = newOrder, !.label = Append(@, " (Copy)")]

\* arr.splice(start, 0, item) on a copy: a start past the end inserts at the
\* end, a negative start counts from the end (indices from zero)
SpliceInsert(arr, start, item) ==
    LET at == IF start < 0 THEN Max(Len(arr) + start, 0) ELSE Min(start, Len(arr))
    IN SubSeq(arr, 1, at) \o <<item>> \o SubSeq(arr, at + 1, Len(arr))

\* what arr.splice(start, 1) removes: at most one element
SpliceRemoved(arr, start) ==
    LET at == IF start < 0 THEN Max(Len(arr) + start, 0) ELSE Min(start, Len(arr))
    IN IF at < Len(arr) THEN <<arr[at + 1]>> ELSE <<>>

\* what arr.splice(start, 1) leaves
SpliceRest(arr, start) ==
    LET at == IF start < 0 THEN Max(Len(arr) + start, 0) ELSE Min(start, Len(arr))
    IN SubSeq(arr, 1, at) \o SubSeq(arr, at + 2, Len(arr))

\* fields.map((field, index) => ({...field, order: index}))
Renumber(arr) == [i \in 1..Len(arr) |-> [arr[i] EXCEPT !.order = i - 1]]

\* {...undefined, order}: the entry reorderFields makes of a field it did not find
UndefinedField == Field(0, "undefined", <<>>, Config(<<>>, <<>>), NoConditions, 0)

\* reorderFields exchanging the two entries instead of moving one
reorderFields_Swap(fs, fromIndex, toIndex) ==
    IF fromIndex \in 0..(Len(fs) - 1) /\ toIndex \in 0..(Len(fs) - 1)
        THEN Renumber([i \in 1..Len(fs) |->
                 IF i = fromIndex + 1 THEN fs[toIndex + 1]
                 ELSE IF i = toIndex + 1 THEN fs[fromIndex + 1]
                 ELSE fs[i]])
    ELSE fs

\* reorderFields(fields, fromIndex, toIndex)
reorderFields(fs, fromIndex, toIndex) ==
    LET removed == SpliceRemoved(fs, fromIndex)
        rest == SpliceRest(fs, fromIndex)
        moved == IF removed = <<>> THEN UndefinedField ELSE removed[1]
    IN Renumber(SpliceInsert(rest, toIndex, moved))

\* removeFieldWithCleanup keeping the rules that name the removed field
CleanField_KeepsRules(field, fieldId) == field

\* the cleanup of one remaining field: its rules that name fieldId go, and
\* with no rule left its conditions go
CleanField(field, fieldId) ==
    IF HasConditions(field)
        THEN LET IsKept(rule) == rule.field # fieldId
                 cleanedRules == SelectSeq(ConditionsOf(field).rules, IsKept)
             IN IF Len(cleanedRules) = 0 THEN [field EXCEPT !.conditions = NoConditions]
                ELSE [field EXCEPT !.conditions[1].rules = cleanedRules]
    ELSE field

\* removeFieldWithCleanup(fields, fieldId)
removeFieldWithCleanup(fs, fieldId) ==
    LET IsOther(f) == f.id # fieldId
        updatedFields == SelectSeq(fs, IsOther)
    IN [i \in 1..Len(updatedFields) |-> CleanField(updatedFields[i], fieldId)]


(***************************************************************************)
(* The store's handlers (store/index.ts).  Each constrains the store's own *)
(* variables; a specification adds what it records of the step in lastOp   *)
(* and before.  Every handler that goes through updateFormTimestamp reads  *)
(* the clock, which never goes back.                                       *)
(***************************************************************************)
StoreIds == 1..MaxIds

\* new Date(): now or later, within the model's clock
ClockReadings == now..Min(now + 1, MaxClock)

\* updateFormTimestamp: metadata.updatedAt becomes the time read
Stamp(t) == updatedAt' = t /\ now' = t

Op(name, fieldId, from, to) == [name |-> name, fieldId |-> fieldId, from |-> from, to |-> to]

\* fields.findIndex(f => f.id === fieldId)
FieldIndex(fs, fieldId) ==
    IF \E i \in 1..Len(fs) : fs[i].id = fieldId
        THEN (CHOOSE i \in 1..Len(fs) :
                  fs[i].id = fieldId /\ \A j \in 1..(i - 1) : fs[j].id # fieldId) - 1
    ELSE -1

\* a Partial<FieldSchema>: each attribute is given (length 1) or not (length 0)
Updates(label, conditions) == [label |-> label, conditions |-> conditions]

\* {...field, ...updates}
Merge(field, updates) ==
    [field EXCEPT
        !.label = IF Len(updates.label) = 1 THEN updates.label[1] ELSE @,
        !.conditions = IF Len(updates.conditions) = 1 THEN updates.conditions[1] ELSE @]

\* an optional argument: given (length 1) or omitted (length 0)
Omitted == <<>>

Given(x) == <<x>>

\* insertPosition taking the front of the list for an omitted position
insertPosition_Front(position, fs) == IF Len(position) = 1 THEN position[1] ELSE 0

\* insertPosition = position ?? currentForm.fields.length
insertPosition(position, fs) == IF Len(position) = 1 THEN position[1] ELSE Len(fs)

\* addField(type, position)
AddField(type, position) ==
    /\ nextId <= MaxIds
    /\ Len(fields) < MaxFields
    /\ LET at == insertPosition(position, fields)
           newField == createFieldSchema(type, at, nextId)
           updatedFields == SpliceInsert(fields, at, newField)
       IN /\ fields' = Renumber(updatedFields)
          /\ selectedFieldId' = newField.id
          /\ nextId' = nextId + 1
    /\ \E t \in ClockReadings : Stamp(t)
    /\ UNCHANGED formVars

\* updateField(fieldId, updates)
UpdateField(fieldId, updates) ==
    /\ fields' = [i \in 1..Len(fields) |->
                    IF fields[i].id = fieldId THEN Merge(fields[i], updates) ELSE fields[i]]
    /\ \E t \in ClockReadings : Stamp(t)
    /\ UNCHANGED <<selectedFieldId, nextId, formVars>>

\* a removal that leaves the selection where it is
SelectionAfterRemove_Keeps(selected, fieldId) == selected

\* selectedFieldId === fieldId ? null : selectedFieldId
SelectionAfterRemove(selected, fieldId) == IF selected = fieldId THEN 0 ELSE selected

\* removeField(fieldId)
RemoveField(fieldId) ==
    /\ fields' = removeFieldWithCleanup(fields, fieldId)
    /\ \E t \in ClockReadings : Stamp(t)
    /\ selectedFieldId' = SelectionAfterRemove(selectedFieldId, fieldId)
    /\ UNCHANGED <<nextId, formVars>>

\* duplicateField(fieldId): the state is returned as it is when no field has the id
DuplicateField(fieldId) ==
    LET fieldIndex == FieldIndex(fields, fieldId) IN
    IF fieldIndex = -1
        THEN UNCHANGED <<fields, updatedAt, now, selectedFieldId, nextId, formVars>>
    ELSE /\ nextId <= MaxIds
         /\ Len(fields) < MaxFields
         /\ LET newField == cloneField(fields[fieldIndex + 1], fieldIndex + 1, nextId)
                updatedFields == SpliceInsert(fields, fieldIndex + 1, newField)
            IN /\ fields' = Renumber(updatedFields)
               /\ selectedFieldId' = newField.id
               /\ nextId' = nextId + 1
         /\ \E t \in ClockReadings : Stamp(t)
         /\ UNCHANGED formVars

\* reorderField(fromIndex, toIndex)
ReorderField(fromIndex, toIndex) ==
    /\ fields' = reorderFields(fields, fromIndex, toIndex)
    /\ \E t \in ClockReadings : Stamp(t)
    /\ UNCHANGED <<selectedFieldId, nextId, formVars>>

\* currentForm.metadata as the form handlers see it, and a Partial of it: each
\* attribute is given (length 1) or not (length 0)
Metadata(t, u) == [title |-> t, updatedAt |-> u]

\* {...state.currentForm.metadata, ...metadata}
MergeMetadata(metadata, given) ==
    [title |-> IF Len(given.title) = 1 THEN given.title[1] ELSE metadata.title,
     updatedAt |-> IF Len(given.updatedAt) = 1 THEN given.updatedAt[1] ELSE metadata.updatedAt]

\* {...state.currentForm.settings, ...settings}
MergeSettings(current, given) ==
    [current EXCEPT
        !.successMessage = IF Len(given.successMessage) = 1 THEN given.successMessage[1] ELSE @]

\* updateFormTimestamp that leaves the metadata as it finds it
updateFormTimestamp_KeepsGiven(metadata, t) == metadata

\* updateFormTimestamp(schema), on the metadata, t being what new Date() reads
updateFormTimestamp(metadata, t) == [metadata EXCEPT !.updatedAt = t]

\* updateFormMetadata(metadata)
UpdateFormMetadata(given) ==
    /\ \E t \in ClockReadings :
          LET merged == MergeMetadata(Metadata(title, updatedAt), given)
              stamped == updateFormTimestamp(merged, t)
          IN /\ title' = stamped.title
             /\ updatedAt' = stamped.updatedAt
             /\ now' = t
    /\ UNCHANGED <<fields, selectedFieldId, nextId, settings, storeFormData>>

\* updateFormSettings(settings)
UpdateFormSettings(given) ==
    /\ \E t \in ClockReadings :
          LET stamped == updateFormTimestamp(Metadata(title, updatedAt), t)
          IN /\ title' = stamped.title
             /\ updatedAt' = stamped.updatedAt
             /\ now' = t
    /\ settings' = MergeSettings(settings, given)
    /\ UNCHANGED <<fields, selectedFieldId, nextId, storeFormData>>

\* selectField(fieldId); null is 0
SelectField(fieldId) ==
    /\ selectedFieldId' = fieldId
    /\ UNCHANGED <<fields, updatedAt, now, nextId, formVars>>

\* newForm(): createEmptyFormSchema() reads the clock for createdAt and updatedAt
NewForm ==
    /\ fields' = <<>>
    /\ title' = DEFAULT_FORM_TITLE
    /\ settings' = DefaultSettings
    /\ \E t \in ClockReadings : Stamp(t)
    /\ storeFormData' = <<>>
    /\ selectedFieldId' = 0
    /\ UNCHANGED nextId

\* loadForm(schema)
LoadForm(schema) ==
    /\ fields' = schema.fields
    /\ title' = schema.title
    /\ settings' = schema.settings
    /\ updatedAt' = schema.updatedAt
    /\ storeFormData' = <<>>
    /\ selectedFieldId' = 0
    /\ UNCHANGED <<now, nextId>>

(***************************************************************************)
(* Spec: the store from the empty form, any field handler at any time;     *)
(* lastOp records the handler called last and its arguments.               *)
(***************************************************************************)
StoreFieldTypes == {"text", "email"}

\* the updates of the model: conditions (none, an empty rule list that hides
\* the field, or one rule on the first field)
StoreUpdateSamples ==
    {Updates(<<>>, <<c>>) :
        c \in {NoConditions, Conditions(FALSE, <<>>, "AND"),
               Conditions(TRUE, <<CondRule(1, "isNotEmpty", Undefined)>>, "AND")}}

Record(op) == lastOp' = op /\ UNCHANGED <<before, engineVars, rendererVars, run>>

\* the positions addField is called with: none, or one from just below to just
\* above the indices of the list
PositionSamples(fs) == {Omitted} \cup {Given(p) : p \in -1..(Len(fs) + 1)}

\* what is recorded of an addField call: the id the new field gets, and the
\* position as it was passed (from is the position, to is 1, when one was given)
AddOp(id, position) ==
    Op("addField", id, IF Len(position) = 1 THEN position[1] ELSE 0, Len(position))

Init == StoreInit /\ EngineIdle /\ RendererIdle /\ run = NoRun

Next ==
    \/ \E type \in StoreFieldTypes : \E position \in PositionSamples(fields) :
          AddField(type, position) /\ Record(AddOp(nextId, position))
    \/ \E fieldId \in StoreIds : \E updates \in StoreUpdateSamples :
          UpdateField(fieldId, updates) /\ Record(Op("updateField", fieldId, 0, 0))
    \/ \E fieldId \in StoreIds :
          RemoveField(fieldId) /\ Record(Op("removeField", fieldId, 0, 0))
    \/ \E fieldId \in StoreIds :
          DuplicateField(fieldId) /\ Record(Op("duplicateField", fieldId, 0, 0))
    \/ \E fromIndex \in 0..(Len(fields) - 1) : \E toIndex \in 0..(Len(fields) - 1) :
          ReorderField(fromIndex, toIndex) /\ Record(Op("reorderField", 0, fromIndex, toIndex))

Spec == Init /\ [][Next]_vars


(***************************************************************************)
(* Claims checked under Spec.                                              *)
(***************************************************************************)
\* C1 - Order invariant: from the empty form, after any sequence of addField,
\* removeField, duplicateField and reorderField (indices within 0..n-1),
\* fields[i].order = i for every index i (indices from zero).
C1_OrderInvariant == \A i \in 1..Len(fields) : fields[i].order = i - 1

\* the step is a call of this handler with an id no field of the form has
CallsOnAbsent(name) ==
    /\ lastOp'.name = name
    /\ FieldIndex(fields, lastOp'.fieldId) = -1

\* C13 - updateField with a fieldId that matches no field is a no-op: the form
\* after the call equals the form before it in every attribute, including
\* metadata.updatedAt.
C13_UpdateAbsentIsNoOp ==
    [][CallsOnAbsent("updateField") =>
          /\ fields' = fields
          /\ updatedAt' = updatedAt
          /\ title' = title
          /\ settings' = settings]_vars

\* the field but for its place in the list
Unplaced(f) == [f EXCEPT !.order = 0]

\* C20 - duplicateField on an existing field at index i inserts one new field
\* at index i+1 with an id no field had, the source's label with the copy
\* suffix and the source's type, config and conditions; the fields after i
\* shift by one in their order; the new field is selected.  On an absent
\* fieldId the store's state is unchanged.
C20_DuplicateInsertsCopy ==
    [][lastOp'.name = "duplicateField" =>
          LET i == FieldIndex(fields, lastOp'.fieldId) IN
          IF i = -1
              THEN UNCHANGED <<fields, updatedAt, selectedFieldId, title, settings>>
          ELSE LET source == fields[i + 1]
                   copy == fields'[i + 2]
               IN /\ Len(fields') = Len(fields) + 1
                  /\ \A j \in 1..Len(fields) : copy.id # fields[j].id
                  /\ copy.label = Append(source.label, " (Copy)")
                  /\ copy.type = source.type
                  /\ copy.config = source.config
                  /\ copy.conditions = source.conditions
                  /\ \A j \in 1..(i + 1) : Unplaced(fields'[j]) = Unplaced(fields[j])
                  /\ \A j \in (i + 2)..Len(fields) : Unplaced(fields'[j + 1]) = Unplaced(fields[j])
                  /\ selectedFieldId' = copy.id]_vars

\* a field with conditions that is not the last was duplicated: its copy
\* follows it, is selected, and another field follows the copy
C20_Witness ==
    /\ lastOp.name = "duplicateField"
    /\ \E i \in 1..(Len(fields) - 2) :
          /\ fields[i].id = lastOp.fieldId
          /\ HasConditions(fields[i])
          /\ fields[i + 1].label = Append(fields[i].label, " (Copy)")
          /\ fields[i + 1].conditions = fields[i].conditions
          /\ fields[i + 1].id # fields[i].id
          /\ selectedFieldId = fields[i + 1].id
          /\ fields[i + 2].order = i + 1

\* the step is a call of addField, and idx is where its field is to go
AddsAt(idx) ==
    /\ lastOp'.name = "addField"
    /\ idx = (IF lastOp'.to = 1 THEN lastOp'.from ELSE Len(fields))

\* C21 - addField(type, position) with 0 <= position <= n places the newly
\* created field at index position, and at the end when position is omitted;
\* the fields that were there keep their relative order (and all but their
\* order attribute); selectedFieldId becomes the new field's id.
C21_AddFieldAtPosition ==
    [][\A idx \in 0..Len(fields) :
          AddsAt(idx) =>
              /\ Len(fields') = Len(fields) + 1
              /\ fields'[idx + 1].id = lastOp'.fieldId
              /\ fields'[idx + 1].type \in StoreFieldTypes
              /\ \A j \in 1..Len(fields) : fields[j].id # lastOp'.fieldId
              /\ \A j \in 1..idx : Unplaced(fields'[j]) = Unplaced(fields[j])
              /\ \A j \in (idx + 1)..Len(fields) : Unplaced(fields'[j + 1]) = Unplaced(fields[j])
              /\ selectedFieldId' = lastOp'.fieldId]_vars

\* addField was called with position 1 on a form of two fields: its field is
\* the second of three and selected, the other two keep their sequence
C21_Witness ==
    /\ lastOp.name = "addField"
    /\ lastOp.to = 1
    /\ lastOp.from = 1
    /\ Len(fields) = 3
    /\ fields[2].id = lastOp.fieldId
    /\ fields[2].order = 1
    /\ fields[1].id # fields[3].id
    /\ fields[3].order = 2
    /\ selectedFieldId = lastOp.fieldId

\* addField was called without a position on a form of two fields, and its
\* field is the third and selected
C21_WitnessOmitted ==
    /\ lastOp.name = "addField"
    /\ lastOp.to = 0
    /\ Len(fields) = 3
    /\ fields[3].id = lastOp.fieldId
    /\ selectedFieldId = lastOp.fieldId

(***************************************************************************)
(* SpecRemove: a form is built by addField (at the end) and updateField    *)
(* (conditions on the ids the store hands out, MaxFormRules rules in all), *)
(* and then one removeField is observed: lastOp names it and before is the *)
(* field list it started from.                                             *)
(***************************************************************************)
StoreRuleSamples == {CondRule(id, "isNotEmpty", Undefined) : id \in StoreIds}

RemoveConditionSamples ==
    {NoConditions, Conditions(FALSE, <<>>, "AND")} \cup
    {Conditions(TRUE, rules, "AND") :
        rules \in SeqsUpTo(StoreRuleSamples, MaxFormRules) \ {<<>>}}

FormRuleCount(fs) ==
    LET RECURSIVE Count(_)
        Count(i) == IF i > Len(fs) THEN 0 ELSE Len(RulesOf(fs[i])) + Count(i + 1)
    IN Count(1)

Building == lastOp.name = "init"

BuildAddField ==
    /\ Building
    /\ AddField("text", Omitted)
    /\ UNCHANGED <<lastOp, before, engineVars, rendererVars, run>>

BuildUpdateField(fieldId, conditions) ==
    /\ Building
    /\ \E i \in 1..Len(fields) : fields[i].id = fieldId
    /\ UpdateField(fieldId, Updates(<<>>, <<conditions>>))
    /\ FormRuleCount(fields') <= MaxFormRules
    /\ UNCHANGED <<lastOp, before, engineVars, rendererVars, run>>

ObservedRemoveField(fieldId) ==
    /\ Building
    /\ RemoveField(fieldId)
    /\ lastOp' = Op("removeField", fieldId, 0, 0)
    /\ before' = fields
    /\ UNCHANGED <<engineVars, rendererVars, run>>

NextRemove ==
    \/ BuildAddField
    \/ \E fieldId \in StoreIds : \E conditions \in RemoveConditionSamples :
          BuildUpdateField(fieldId, conditions)
    \/ \E fieldId \in StoreIds : ObservedRemoveField(fieldId)

SpecRemove == Init /\ [][NextRemove]_vars

(***************************************************************************)
(* Claims checked under SpecRemove.                                        *)
(***************************************************************************)
Removed == lastOp.name = "removeField"

\* the field list's entry with this id
FieldWithId(fs, id) == fs[CHOOSE i \in 1..Len(fs) : fs[i].id = id]

\* the indices of the rules that do not name g, and the k-th of them
KeptIndices(rules, g) == {i \in 1..Len(rules) : rules[i].field # g}

NthKept(rules, g, k) ==
    CHOOSE i \in KeptIndices(rules, g) :
        Cardinality({j \in KeptIndices(rules, g) : j < i}) = k - 1

\* C2 - Cleanup invariant: after removeField(g) no remaining field has a rule
\* whose `field` is g's id; the rules naming other fields are kept, in their
\* original order; and a field whose rules all named g has no conditions.
C2_CleanupInvariant ==
    Removed =>
        LET g == lastOp.fieldId IN
        \A i \in 1..Len(fields) :
            LET f == fields[i]
                was == FieldWithId(before, f.id)
                rules == RulesOf(was)
                kept == KeptIndices(rules, g)
            IN /\ \A k \in 1..Len(RulesOf(f)) : RulesOf(f)[k].field # g
               /\ Len(RulesOf(f)) = Cardinality(kept)
               /\ \A k \in 1..Len(RulesOf(f)) : RulesOf(f)[k] = rules[NthKept(rules, g, k)]
               /\ (Len(rules) > 0 /\ kept = {}) => ~HasConditions(f)
               /\ kept # {} => (HasConditions(f) /\ ConditionsOf(f).show = ConditionsOf(was).show
                                   /\ ConditionsOf(f).logic = ConditionsOf(was).logic)

\* field g was removed; one field had the rules [on x, on g] and keeps [on x],
\* another had the single rule [on g] and has no conditions left
C2_Witness ==
    /\ Removed
    /\ \E b \in Range(before) : b.id = lastOp.fieldId
    /\ \E i \in 1..Len(fields) : \E j \in 1..Len(fields) :
          LET wasI == RulesOf(FieldWithId(before, fields[i].id))
              wasJ == RulesOf(FieldWithId(before, fields[j].id))
          IN /\ Len(wasI) = 2
             /\ wasI[1].field # lastOp.fieldId
             /\ wasI[2].field = lastOp.fieldId
             /\ RulesOf(fields[i]) = <<wasI[1]>>
             /\ Len(wasJ) = 1
             /\ wasJ[1].field = lastOp.fieldId
             /\ ~HasConditions(fields[j])


\* no rule of the field names this id
NamesNot(f, g) == \A k \in 1..Len(RulesOf(f)) : RulesOf(f)[k].field # g

\* the answers the visibility of a field of the model can depend on: each
\* field answered or not
RemoveFormData == {[id \in ids |-> Str(S_A)] : ids \in SUBSET StoreIds}

\* C27 - removeField changes only what refers to the removed field: every
\* remaining field that has no rule naming the removed id, a field with an
\* empty rule list and show = false included, has the same conditions, and
\* so the same visibility for every formData, after the removal as before;
\* so has every field when the removed id matches no field.
C27_RemoveLeavesOthersAlone ==
    Removed =>
        \A i \in 1..Len(fields) :
            LET f == fields[i]
                was == FieldWithId(before, f.id)
            IN NamesNot(was, lastOp.fieldId) =>
                  /\ f.conditions = was.conditions
                  /\ \A formData \in RemoveFormData :
                        evaluateConditions(f, formData, fields)
                            = evaluateConditions(was, formData, before)


(***************************************************************************)
(* Schema documents (schema/utils.ts, the localStorage adapter).  A JSON   *)
(* value is a record of one shape: k is its kind, s the text of a string   *)
(* (or a tag for the content of an array or an object), n a number (1/0    *)
(* for a boolean).  A document is a JSON value with the five top-level     *)
(* attributes of a FormSchema; an attribute it does not have reads as      *)
(* undefined.                                                              *)
(***************************************************************************)
SCHEMA_VERSION == "1.0.0"

SchemaKeys == {"version", "id", "metadata", "fields", "settings"}

J(kind, text, number) == [k |-> kind, s |-> text, n |-> number]

JUndefined == J("undefined", "", 0)

JNull == J("null", "", 0)

JStr(text) == J("string", text, 0)

JNum(number) == J("number", "", number)

JBool(b) == J("boolean", "", IF b THEN 1 ELSE 0)

JArr(tag) == J("array", tag, 0)

JObj(tag) == J("object", tag, 0)

\* typeof v
TypeOf(v) == IF v.k \in {"null", "array", "object"} THEN "object" ELSE v.k

\* !v is false
Truthy(v) ==
    CASE v.k \in {"undefined", "null"} -> FALSE
      [] v.k = "string" -> v.s # ""
      [] v.k \in {"number", "boolean"} -> v.n # 0
      [] OTHER -> TRUE

NoAttrs == [key \in SchemaKeys |-> JUndefined]

\* a document: an object with these attributes, or a value that is not an
\* object (reading an attribute of it gives undefined)
Doc(attrs) == [k |-> "object", s |-> "", n |-> 0, attrs |-> attrs]

Scalar(v) == [k |-> v.k, s |-> v.s, n |-> v.n, attrs |-> NoAttrs]

NullDoc == Scalar(JNull)

Threw(message) == [threw |-> TRUE, value |-> FALSE, error |-> message]

Returned(b) == [threw |-> FALSE, value |-> b, error |-> ""]

\* validateFormSchema(schema): returns true, or throws
validateFormSchema(schema) ==
    IF ~Truthy(schema) \/ TypeOf(schema) # "object"
        THEN Threw("Schema must be an object")
    ELSE LET a == schema.attrs IN
         IF ~Truthy(a["version"]) \/ TypeOf(a["version"]) # "string"
             THEN Threw("Schema must have a version string")
         ELSE IF ~Truthy(a["id"]) \/ TypeOf(a["id"]) # "string"
             THEN Threw("Schema must have an id string")
         ELSE IF ~Truthy(a["metadata"]) \/ TypeOf(a["metadata"]) # "object"
             THEN Threw("Schema must have metadata object")
         ELSE IF a["fields"].k # "array"
             THEN Threw("Schema must have fields array")
         ELSE IF ~Truthy(a["settings"]) \/ TypeOf(a["settings"]) # "object"
             THEN Threw("Schema must have settings object")
         ELSE Returned(TRUE)

\* migrateSchema with a second, destructive step: the fields are reset
migrateSchema_ResetsFields(schema) ==
    [schema EXCEPT !.attrs = [key \in SchemaKeys |->
        CASE key = "version" -> JStr(SCHEMA_VERSION)
          [] key = "fields" -> JArr("[]")
          [] OTHER -> schema.attrs[key]]]

\* migrateSchema(schema): a shallow copy whose version is the current one
migrateSchema(schema) ==
    [schema EXCEPT !.attrs = [key \in SchemaKeys |->
        IF key = "version" THEN JStr(SCHEMA_VERSION) ELSE schema.attrs[key]]]


(***************************************************************************)
(* The localStorage adapter's load.  A stored item is the text under a     *)
(* key: none (getItem gives null), the empty text, a text JSON.parse       *)
(* rejects, or a text that parses to a document.                           *)
(***************************************************************************)
FormIds == {1, 2}

\* `${STORAGE_KEYS.FORM_PREFIX}${id}`
FormKey(id) == <<"form-builder:form:", id>>

StorageKeys == {FormKey(id) : id \in FormIds}

Item(kind, doc) == [kind |-> kind, doc |-> doc]

NoItem == Item("none", NullDoc)

EmptyText == Item("empty", NullDoc)

MalformedText == Item("malformed", NullDoc)

JsonText(doc) == Item("json", doc)

\* localStorage.getItem(key)
getItem(storage, key) == storage[key]

\* !data: no item, or the empty text
NoData(item) == item.kind \in {"none", "empty"}

\* JSON.parse(data): the document, or a SyntaxError
JSONParse(item) ==
    IF item.kind = "json" THEN [threw |-> FALSE, value |-> item.doc]
    ELSE [threw |-> TRUE, value |-> NullDoc]

\* what load did, in order, and what it gave back; load catches every error
Loaded(result, steps) == [result |-> result, steps |-> steps, threw |-> FALSE]

\* load that migrates the parsed document before it validates it
load_MigratesFirst(storage, id) ==
    LET data == getItem(storage, FormKey(id)) IN
    IF NoData(data) THEN Loaded(NullDoc, <<"getItem">>)
    ELSE LET parsed == JSONParse(data) IN
         IF parsed.threw THEN Loaded(NullDoc, <<"getItem", "parse">>)
         ELSE LET migrated == migrateSchema(parsed.value) IN
              IF validateFormSchema(migrated).threw
                  THEN Loaded(NullDoc, <<"getItem", "parse", "migrateSchema", "validateFormSchema">>)
              ELSE Loaded(migrated, <<"getItem", "parse", "migrateSchema", "validateFormSchema">>)

\* localStorageAdapter.load(id)
load(storage, id) ==
    LET data == getItem(storage, FormKey(id)) IN
    IF NoData(data) THEN Loaded(NullDoc, <<"getItem">>)
    ELSE LET parsed == JSONParse(data) IN
         IF parsed.threw THEN Loaded(NullDoc, <<"getItem", "parse">>)
         ELSE IF validateFormSchema(parsed.value).threw
             THEN Loaded(NullDoc, <<"getItem", "parse", "validateFormSchema">>)
         ELSE Loaded(migrateSchema(parsed.value),
                     <<"getItem", "parse", "validateFormSchema", "migrateSchema">>)

(***************************************************************************)
(* SpecSchema: one key of localStorage holds an item; validateFormSchema,  *)
(* migrateSchema (once, and once more on its own result) and load are      *)
(* applied.                                                                *)
(***************************************************************************)
AttrSamples == {JUndefined, JNull, JStr(""), JNum(1), JArr("[]"), JObj("{}")}

VersionSamples == AttrSamples \cup {JStr(SCHEMA_VERSION), JStr("0.9.0")}

IdSamples == AttrSamples \cup {JStr("form-1")}

FieldsSamples == AttrSamples \cup {JArr("[field]")}

DocSamples ==
    {Doc([key \in SchemaKeys |->
            CASE key = "version" -> version
              [] key = "id" -> id
              [] key = "metadata" -> metadata
              [] key = "fields" -> fs
              [] OTHER -> sett]) :
        version \in VersionSamples, id \in IdSamples, metadata \in AttrSamples,
        fs \in FieldsSamples, sett \in AttrSamples}
    \cup {Scalar(v) : v \in {JNull, JStr(""), JStr("text"), JNum(0), JNum(1),
                             JBool(FALSE), JBool(TRUE), JArr("[]")}}

ItemSamples == {EmptyText, MalformedText} \cup {JsonText(doc) : doc \in DocSamples}

InitSchema ==
    /\ StoreInit
    /\ call = NoCall
    /\ ret = NoCall
    /\ \E item \in ItemSamples :
          localStorage = [key \in StorageKeys |-> IF key = FormKey(1) THEN item ELSE NoItem]
    /\ RendererIdle
    /\ run = NoRun

\* the document JSON.parse makes of the stored item
StoredDoc == JSONParse(getItem(localStorage, FormKey(1)))

\* validateFormSchema(schema), schema the stored document
CallValidateFormSchema ==
    /\ ret = NoCall
    /\ ~StoredDoc.threw
    /\ call' = [op |-> "validateFormSchema", schema |-> StoredDoc.value]
    /\ ret' = [op |-> "validateFormSchema", result |-> validateFormSchema(StoredDoc.value)]
    /\ UNCHANGED <<storeVars, localStorage, rendererVars, run>>

\* migrateSchema(schema), schema the stored document, a FormSchema
CallMigrateSchema ==
    /\ ret = NoCall
    /\ ~StoredDoc.threw
    /\ ~validateFormSchema(StoredDoc.value).threw
    /\ call' = [op |-> "migrateSchema", schema |-> StoredDoc.value, times |-> 1]
    /\ ret' = [op |-> "migrateSchema", result |-> migrateSchema(StoredDoc.value)]
    /\ UNCHANGED <<storeVars, localStorage, rendererVars, run>>

\* migrateSchema(schema), schema the result of the migration before
CallMigrateSchemaAgain ==
    /\ ret.op = "migrateSchema"
    /\ call.times = 1
    /\ call' = [op |-> "migrateSchema", schema |-> ret.result, times |-> 2]
    /\ ret' = [op |-> "migrateSchema", result |-> migrateSchema(ret.result)]
    /\ UNCHANGED <<storeVars, localStorage, rendererVars, run>>

\* await localStorageAdapter.load(id)
CallLoad(id) ==
    /\ ret = NoCall
    /\ call' = [op |-> "load", id |-> id]
    /\ ret' = [op |-> "load", result |-> load(localStorage, id)]
    /\ UNCHANGED <<storeVars, localStorage, rendererVars, run>>

NextSchema ==
    \/ CallValidateFormSchema
    \/ CallMigrateSchema
    \/ CallMigrateSchemaAgain
    \/ \E id \in FormIds : CallLoad(id)

SpecSchema == InitSchema /\ [][NextSchema]_vars

(***************************************************************************)
(* Claims checked under SpecSchema.                                        *)
(***************************************************************************)
\* C11 - Migration is idempotent and version-only: for every structurally
\* valid schema s, migrateSchema(s) has the current version and equals s in
\* id, metadata, fields and settings, and migrating the result once more
\* gives the same result.
C11_MigrateIdempotentVersionOnly ==
    ret.op = "migrateSchema" =>
        /\ ret.result.k = call.schema.k
        /\ ret.result.attrs["version"] = JStr(SCHEMA_VERSION)
        /\ \A key \in SchemaKeys \ {"version"} : ret.result.attrs[key] = call.schema.attrs[key]
        /\ call.times = 2 => ret.result = call.schema

\* a document of an older version was migrated, and the result migrated again
C11_Witness ==
    /\ ret.op = "migrateSchema"
    /\ call.times = 2
    /\ getItem(localStorage, FormKey(1)).doc.attrs["version"] = JStr("0.9.0")
    /\ ret.result.attrs["version"] = JStr(SCHEMA_VERSION)
    /\ ret.result.attrs["id"] = JStr("form-1")
    /\ ret.result.attrs["fields"] = JArr("[field]")


\* the item load(id) was asked for
LoadedItem == getItem(localStorage, FormKey(call.id))

\* the step is among those load took, and where
StepAt(step) == {i \in 1..Len(ret.result.steps) : ret.result.steps[i] = step}

\* C12 - Load pipeline ordering and failure: load validates the structure
\* before it migrates; a stored document that cannot be parsed or fails
\* validateFormSchema is never migrated and load returns null without
\* raising; a document that passes is returned migrated.
C12_LoadValidatesThenMigrates ==
    ret.op = "load" =>
        /\ ~ret.result.threw
        /\ \A m \in StepAt("migrateSchema") : \E v \in StepAt("validateFormSchema") : v < m
        /\ IF JSONParse(LoadedItem).threw \/ validateFormSchema(LoadedItem.doc).threw
               THEN /\ ret.result.result = NullDoc
                    /\ StepAt("migrateSchema") = {}
           ELSE /\ ret.result.result = migrateSchema(LoadedItem.doc)
                /\ ret.result.result.attrs["version"] = JStr(SCHEMA_VERSION)
                /\ StepAt("migrateSchema") # {}

\* a stored document that parses but has no version string was loaded: it was
\* validated, not migrated, and load gave null
C12_Witness ==
    /\ ret.op = "load"
    /\ LoadedItem.kind = "json"
    /\ LoadedItem.doc.k = "object"
    /\ LoadedItem.doc.attrs["version"] = JUndefined
    /\ LoadedItem.doc.attrs["id"] = JStr("form-1")
    /\ ret.result.steps = <<"getItem", "parse", "validateFormSchema">>
    /\ ret.result.result = NullDoc


\* the five top-level attributes are there and of their types
WellTyped(doc) ==
    /\ doc.k = "object"
    /\ doc.attrs["version"].k = "string"
    /\ doc.attrs["id"].k = "string"
    /\ doc.attrs["metadata"].k = "object"
    /\ doc.attrs["fields"].k = "array"
    /\ doc.attrs["settings"].k = "object"

\* C19 - validateFormSchema accepts a candidate only when version is a string,
\* id is a string, metadata is an object, fields is an array and settings is
\* an object; for a candidate in which one of the five is missing or of the
\* wrong type it throws and never returns true.
C19_AcceptsOnlyWellTyped ==
    ret.op = "validateFormSchema" =>
        /\ ret.result.value => WellTyped(call.schema)
        /\ ~WellTyped(call.schema) => ret.result.threw

(***************************************************************************)
(* SpecReorder: reorderFields applied to a field list with unique ids and  *)
(* two indices, in range or not.  The list's order values are its indices, *)
(* or what removeField leaves of them (each one too high).                 *)
(***************************************************************************)
IdLists ==
    {ids \in SeqsUpTo(StoreIds, MaxFields) :
        \A i \in 1..Len(ids) : \A j \in 1..Len(ids) : ids[i] = ids[j] => i = j}

ReorderListSamples ==
    {[i \in 1..Len(ids) |-> createFieldSchema("text", i - 1 + gap, ids[i])] :
        ids \in IdLists, gap \in {0, 1}}

InitReorder ==
    /\ StoreInit
    /\ localStorage = NoStorage
    /\ RendererIdle
    /\ run = NoRun
    /\ ret = NoCall
    /\ \E fs \in ReorderListSamples :
       \E fromIndex \in -2..(Len(fs) + 1) : \E toIndex \in -2..(Len(fs) + 1) :
          call = [op |-> "reorderFields", fields |-> fs,
                  fromIndex |-> fromIndex, toIndex |-> toIndex]

\* result = reorderFields(fields, fromIndex, toIndex); nothing in it throws
CallReorderFields ==
    /\ call.op = "reorderFields"
    /\ ret = NoCall
    /\ ret' = [op |-> "reorderFields", threw |-> FALSE,
               fields |-> reorderFields(call.fields, call.fromIndex, call.toIndex)]
    /\ UNCHANGED <<call, storeVars, localStorage, rendererVars, run>>

NextReorder == CallReorderFields

SpecReorder == InitReorder /\ [][NextReorder]_vars

(***************************************************************************)
(* Claims checked under SpecReorder.                                       *)
(***************************************************************************)
Reordered == ret.op = "reorderFields"

InRange(index) == index \in 0..(Len(call.fields) - 1)

\* C14 - reorderFields called with fromIndex or toIndex outside 0..n-1 fails
\* with an error and leaves the field list unchanged: no clamping, no entry
\* without an id, no other number of fields.
C14_OutOfRangeFails ==
    (Reordered /\ ~(InRange(call.fromIndex) /\ InRange(call.toIndex))) =>
        /\ ret.threw
        /\ ret.fields = call.fields

\* the ids of a field list, and the list without the field of an id
IdsOf(fs) == [i \in 1..Len(fs) |-> fs[i].id]

IdsWithout(fs, id) ==
    LET Other(x) == x # id IN SelectSeq(IdsOf(fs), Other)

\* C15 - Reorder preserves the set: for fromIndex and toIndex in 0..n-1 the
\* result has the same fields (a permutation), the moved field is at index
\* toIndex, the others keep their relative order, and the order values are
\* 0..n-1 in list order.
C15_ReorderIsPermutation ==
    (Reordered /\ InRange(call.fromIndex) /\ InRange(call.toIndex)) =>
        LET moved == call.fields[call.fromIndex + 1] IN
        /\ Len(ret.fields) = Len(call.fields)
        /\ \A f \in Range(call.fields) :
              \E i \in 1..Len(ret.fields) : ret.fields[i] = [f EXCEPT !.order = i - 1]
        /\ ret.fields[call.toIndex + 1].id = moved.id
        /\ IdsWithout(ret.fields, moved.id) = IdsWithout(call.fields, moved.id)
        /\ \A i \in 1..Len(ret.fields) : ret.fields[i].order = i - 1

\* index 0 of [1, 2, 3] was moved to index 2, giving [2, 3, 1]
C15_Witness ==
    /\ Reordered
    /\ IdsOf(call.fields) = <<1, 2, 3>>
    /\ call.fromIndex = 0
    /\ call.toIndex = 2
    /\ IdsOf(ret.fields) = <<2, 3, 1>>
    /\ ret.fields[3].order = 2


(***************************************************************************)
(* SpecStamp: every handler of the store that changes the form, the field  *)
(* handlers on a small alphabet (text fields added at the end, conditions  *)
(* set or cleared); lastOp records the handler and what it was given.      *)
(***************************************************************************)
StampUpdateSamples ==
    {Updates(<<>>, <<c>>) : c \in {NoConditions, Conditions(FALSE, <<>>, "AND")}}

MetadataUpdateSamples ==
    {[title |-> t, updatedAt |-> u] :
        t \in {<<>>, <<"Survey">>},
        u \in {<<>>} \cup {<<c>> : c \in 0..MaxClock}}

SettingsUpdateSamples == {[successMessage |-> m] : m \in {<<>>, <<"Thanks">>}}

FormOp(name, given) ==
    [name |-> name, fieldId |-> 0, from |-> 0, to |-> 0, given |-> given]

NextStamp ==
    \/ AddField("text", Omitted) /\ Record(Op("addField", nextId, 0, 0))
    \/ \E fieldId \in StoreIds : \E updates \in StampUpdateSamples :
          UpdateField(fieldId, updates) /\ Record(Op("updateField", fieldId, 0, 0))
    \/ \E fieldId \in StoreIds :
          RemoveField(fieldId) /\ Record(Op("removeField", fieldId, 0, 0))
    \/ \E fieldId \in StoreIds :
          DuplicateField(fieldId) /\ Record(Op("duplicateField", fieldId, 0, 0))
    \/ \E fromIndex \in 0..(Len(fields) - 1) : \E toIndex \in 0..(Len(fields) - 1) :
          ReorderField(fromIndex, toIndex) /\ Record(Op("reorderField", 0, 0, 0))
    \/ \E given \in MetadataUpdateSamples :
          UpdateFormMetadata(given) /\ Record(FormOp("updateFormMetadata", given))
    \/ \E given \in SettingsUpdateSamples :
          UpdateFormSettings(given) /\ Record(FormOp("updateFormSettings", given))

SpecStamp == Init /\ [][NextStamp]_vars

(***************************************************************************)
(* Claims checked under SpecStamp.                                         *)
(***************************************************************************)
\* the step is one of the actions that change fields, settings or metadata
ChangesForm ==
    \/ lastOp'.name \in {"addField", "removeField", "reorderField",
                         "updateFormMetadata", "updateFormSettings"}
    \/ /\ lastOp'.name \in {"updateField", "duplicateField"}
       /\ FieldIndex(fields, lastOp'.fieldId) # -1

\* C18 - Every store action that changes fields, settings or metadata sets
\* metadata.updatedAt to the time of that action, also when the caller of
\* updateFormMetadata supplies an updatedAt; the clock never going back,
\* updatedAt never decreases.
C18_UpdatedAtStamped ==
    [][/\ ChangesForm => (updatedAt' = now' /\ now' >= now)
       /\ updatedAt' >= updatedAt]_vars

\* updateFormMetadata was given a title and an updatedAt of the past: the
\* title is taken, the updatedAt is that of the call
C18_Witness ==
    /\ lastOp.name = "updateFormMetadata"
    /\ lastOp.given = [title |-> <<"Survey">>, updatedAt |-> <<0>>]
    /\ title = "Survey"
    /\ now = 1
    /\ updatedAt = 1
    /\ Len(fields) > 0


(***************************************************************************)
(* SpecCondition: evaluateCondition applied twice to one pair of operands  *)
(* (the answer of the field a rule names, and the rule's value), each time *)
(* with any operator; ret keeps the operators and their results in the     *)
(* order of the calls.                                                     *)
(***************************************************************************)
ConditionOperators ==
    {"equals", "notEquals", "contains", "notContains", "greaterThan", "lessThan",
     "greaterThanOrEqual", "lessThanOrEqual", "isEmpty", "isNotEmpty"}

\* answers: none, null, strings, a number, a boolean, arrays of selections
DependentValueSamples ==
    {Undefined, Null, Str(<<>>), Str(<<"U">>), Str(<<"U", "S">>), Num(1), Bool(TRUE),
     Arr(<<>>), Arr(<<Str(<<"U", "S">>)>>), Arr(<<Str(<<"U">>), Num(1)>>)}

\* the literals of a rule
RuleValueSamples ==
    {Undefined, Null, Str(<<>>), Str(<<"S">>), Str(<<"U", "S">>), Num(1),
     Arr(<<Str(<<"U", "S">>)>>)}

MaxConditionCalls == 2

InitCondition ==
    /\ StoreInit
    /\ \E fieldValue \in DependentValueSamples : \E compareValue \in RuleValueSamples :
          call = [op |-> "condition", fieldValue |-> fieldValue, compareValue |-> compareValue]
    /\ ret = [op |-> "evaluateCondition", results |-> <<>>]
    /\ localStorage = NoStorage
    /\ RendererIdle
    /\ run = NoRun

\* evaluateCondition(operator, dependentValue, rule.value)
CallEvaluateCondition(operator) ==
    /\ call.op = "condition"
    /\ Len(ret.results) < MaxConditionCalls
    /\ ret' = [ret EXCEPT !.results =
                  Append(@, [operator |-> operator,
                             result |-> evaluateCondition(operator, call.fieldValue,
                                                          call.compareValue)])]
    /\ UNCHANGED <<call, storeVars, localStorage, rendererVars, run>>

NextCondition == \E operator \in ConditionOperators : CallEvaluateCondition(operator)

SpecCondition == InitCondition /\ [][NextCondition]_vars

(***************************************************************************)
(* Claims checked under SpecCondition.                                     *)
(***************************************************************************)
\* the results ret holds for this operator
ResultsOf(operator) ==
    {ret.results[i].result : i \in {j \in 1..Len(ret.results) : ret.results[j].operator = operator}}

\* the dependent value is an array one of whose elements is the rule's value
\* (a primitive of the same type and value)
IsMember(elems, x) ==
    \E e \in Range(elems) :
        e.t = x.t /\ e.t \notin {"array", "file"} /\ e.s = x.s /\ e.n = x.n

\* C22 - contains / notContains: with two strings the result is the substring
\* test; with an array as the dependent value it is the membership test; for
\* every other combination, an unanswered field included, contains is false
\* and notContains is true; so on every pair of operands notContains is the
\* negation of contains.
C22_ContainsAndNotContains ==
    LET v == call.fieldValue
        c == call.compareValue
    IN /\ \A r \in ResultsOf("contains") :
             IF v.t = "string" /\ c.t = "string" THEN r = StringIncludes(v.s, c.s)
             ELSE IF v.t = "array" THEN r = IsMember(v.a, c)
             ELSE r = FALSE
       /\ \A r \in ResultsOf("notContains") :
             IF v.t = "string" /\ c.t = "string" THEN r = ~StringIncludes(v.s, c.s)
             ELSE IF v.t = "array" THEN r = ~IsMember(v.a, c)
             ELSE r = TRUE
       /\ \A r1 \in ResultsOf("contains") : \A r2 \in ResultsOf("notContains") : r1 = ~r2

\* both operators were applied to an unanswered field and a string: contains
\* is false, notContains true
C22_Witness ==
    /\ call.op = "condition"
    /\ call.fieldValue = Undefined
    /\ call.compareValue.t = "string"
    /\ ResultsOf("contains") = {FALSE}
    /\ ResultsOf("notContains") = {TRUE}

\* both operators were applied to an array that holds the rule's value
C22_WitnessMember ==
    /\ call.op = "condition"
    /\ call.fieldValue.t = "array"
    /\ ResultsOf("contains") = {TRUE}
    /\ ResultsOf("notContains") = {FALSE}


(***************************************************************************)
(* FormRenderer (components/renderer/FormRenderer.tsx): the fields it      *)
(* renders and its two handlers.  Its formData and errors are maps from    *)
(* field id to value and to message; a key that is not there has no entry. *)
(***************************************************************************)
\* {...prev, [key]: value}
WithEntry(prev, key, value) ==
    [k \in DOMAIN prev \cup {key} |-> IF k = key THEN value ELSE prev[k]]

\* the deletion that empties the map
WithoutEntry_All(prev, key) == <<>>

\* newErrors = {...prev}; delete newErrors[key]
WithoutEntry(prev, key) == [k \in DOMAIN prev \ {key} |-> prev[k]]

\* the callback of currentForm.fields.filter: a section is kept whatever its
\* conditions, a field with conditions is kept when evaluateConditions says so
IsRendered(field, formData, allFields) ==
    IF field.type = "section" THEN TRUE
    ELSE IF HasConditions(field) THEN evaluateConditions(field, formData, allFields)
    ELSE TRUE

\* visibleFields = currentForm.fields.filter(...)
visibleFields(fs, formData) ==
    LET Keeps(field) == IsRendered(field, formData, fs) IN SelectSeq(fs, Keeps)

\* the field types whose widget calls onChange with the text typed
TextInputTypes == {"text", "email", "password", "textarea"}

\* handleFieldChange(fieldId, value), from the widget of a rendered field
HandleFieldChange(fieldId, value) ==
    /\ \E field \in Range(visibleFields(fields, localFormData)) :
          field.id = fieldId /\ field.type \in TextInputTypes
    /\ localFormData' = WithEntry(localFormData, fieldId, value)
    /\ localErrors' = IF fieldId \in DOMAIN localErrors
                          THEN WithoutEntry(localErrors, fieldId)
                      ELSE localErrors
    /\ lastOp' = Op("handleFieldChange", fieldId, 0, 0)
    /\ UNCHANGED <<fields, updatedAt, selectedFieldId, nextId, now, before, formVars, engineVars, run>>

\* handleSubmit(e)
HandleSubmit ==
    /\ LET validationResult == validateForm(fields, localFormData) IN
       IF validationResult.valid
           THEN localFormData' = <<>> /\ localErrors' = <<>>
       ELSE localErrors' = validationResult.errors /\ UNCHANGED localFormData
    /\ lastOp' = Op("handleSubmit", 0, 0, 0)
    /\ UNCHANGED <<fields, updatedAt, selectedFieldId, nextId, now, before, formVars, engineVars, run>>

(***************************************************************************)
(* SpecRender: the renderer on a form of two fields (text fields and       *)
(* sections, required or not, always shown, never shown, or shown when the *)
(* first field's answer is US), answers typed into the rendered fields and *)
(* submits in any order.                                                   *)
(***************************************************************************)
RenderFieldSamples(id) ==
    {Field(id, type, <<"Field">>, Config(<<required>>, <<>>), conditions, id - 1) :
        type \in {"text", "section"},
        required \in BOOLEAN,
        conditions \in {NoConditions, Conditions(FALSE, <<>>, "AND"),
                        Conditions(TRUE, <<CondRule(1, "equals", Str(S_US))>>, "AND")}}

RenderFormSamples == {<<f1, f2>> : f1 \in RenderFieldSamples(1), f2 \in RenderFieldSamples(2)}

\* e.target.value of a text input
TypedValueSamples == {Str(<<>>), Str(S_US), Str(S_CA)}

InitRender ==
    /\ fields \in RenderFormSamples
    /\ updatedAt = 0
    /\ selectedFieldId = 0
    /\ nextId = 3
    /\ now = 0
    /\ lastOp = NoOp
    /\ before = <<>>
    /\ title = DEFAULT_FORM_TITLE
    /\ settings = DefaultSettings
    /\ storeFormData = <<>>
    /\ EngineIdle
    /\ RendererIdle
    /\ run = NoRun

NextRender ==
    \/ \E fieldId \in FormFieldIds : \E value \in TypedValueSamples :
          HandleFieldChange(fieldId, value)
    \/ HandleSubmit

SpecRender == InitRender /\ [][NextRender]_vars

(***************************************************************************)
(* Claims checked under SpecRender.                                        *)
(***************************************************************************)
\* C23 - The renderer renders only fields the evaluator marks visible: every
\* field of visibleFields has no conditions or evaluateConditions returns true
\* for it, whatever its type.
C23_RendersOnlyVisible ==
    \A field \in Range(visibleFields(fields, localFormData)) :
        ~HasConditions(field) \/ evaluateConditions(field, localFormData, fields)

\* C24 - A submit whose validateForm result is valid leaves the answers and
\* the error map empty; a submit whose result is invalid leaves the answers
\* as they were and sets the error map to the returned errors; a change of a
\* field's value removes that field's entry from the error map and no other.
C24_SubmitClearsOnSuccess ==
    [][/\ lastOp'.name = "handleSubmit" =>
             LET result == validateForm(fields, localFormData) IN
             IF result.valid
                 THEN DOMAIN localFormData' = {} /\ DOMAIN localErrors' = {}
             ELSE localFormData' = localFormData /\ localErrors' = result.errors
       /\ lastOp'.name = "handleFieldChange" =>
             /\ DOMAIN localErrors' = DOMAIN localErrors \ {lastOp'.fieldId}
             /\ \A k \in DOMAIN localErrors' : localErrors'[k] = localErrors[k]]_vars

\* a submit had left an error on each of the two fields; then the first
\* field's value was changed, and the second field's error is still there
C24_Witness ==
    /\ lastOp.name = "handleFieldChange"
    /\ lastOp.fieldId = 1
    /\ 1 \in DOMAIN localFormData
    /\ DOMAIN localErrors = {2}
    /\ localErrors[2] = MSG_REQUIRED

\* a submit of a form with an answered required field went through: answers
\* and errors are empty
C24_WitnessCleared ==
    /\ lastOp.name = "handleSubmit"
    /\ \E f \in Range(fields) : f.type = "text" /\ RequiredOf(f.config) /\ ~HasConditions(f)
    /\ DOMAIN localFormData = {}
    /\ DOMAIN localErrors = {}


(***************************************************************************)
(* detectCircularDependencies executed a step at a time: the forEach over  *)
(* the fields, and the calls of hasCycle with their frames.  run holds the *)
(* closure's visited, recursionStack and cycles, the stack of the hasCycle *)
(* calls that are in their for loop (the fieldId of each and the index of  *)
(* the dep it goes to next), the argument of the call being entered, the   *)
(* value being returned, and, as history, the ids whose deps were walked.  *)
(***************************************************************************)
Frame(fieldId, i) == [fieldId |-> fieldId, i |-> i]

\* visited.has(fieldId) that never finds the id
AlreadyVisited_Never(visited, fieldId) == FALSE

\* visited.has(fieldId)
AlreadyVisited(visited, fieldId) == fieldId \in visited

\* dependencies.get(fieldId), nothing to walk when the Map has no such key
DepsOf(dependencies, fieldId) ==
    IF fieldId \in DOMAIN dependencies THEN dependencies[fieldId] ELSE <<>>

\* the two Sets and the array are created, and the forEach starts
BeginDetect ==
    /\ call.op = "traverse"
    /\ run = NoRun
    /\ run' = [pc |-> "forEach", dependencies |-> Dependencies(call.fields), index |-> 1,
               visited |-> {}, recursionStack |-> {}, cycles |-> <<>>, stack |-> <<>>,
               fieldId |-> 0, returned |-> FALSE, expanded |-> <<>>]
    /\ UNCHANGED <<call, ret, storeVars, localStorage, rendererVars>>

\* fields.forEach(field => { if (!visited.has(field.id)) hasCycle(field.id) }),
\* and return cycles after the last field
ForEachField ==
    /\ run.pc = "forEach"
    /\ IF run.index > Len(call.fields)
           THEN /\ run' = [run EXCEPT !.pc = "done"]
                /\ ret' = [op |-> "detect", cycles |-> run.cycles]
       ELSE /\ run' = IF AlreadyVisited(run.visited, call.fields[run.index].id)
                          THEN [run EXCEPT !.index = @ + 1]
                      ELSE [run EXCEPT !.index = @ + 1, !.pc = "hasCycle",
                                       !.fieldId = call.fields[run.index].id]
            /\ UNCHANGED ret
    /\ UNCHANGED <<call, storeVars, localStorage, rendererVars>>

\* hasCycle(fieldId) up to its for loop: the two tests, then the two adds
EnterHasCycle ==
    /\ run.pc = "hasCycle"
    /\ run' = IF run.fieldId \in run.recursionStack
                  THEN [run EXCEPT !.cycles = Append(@, run.fieldId),
                                   !.pc = "return", !.returned = TRUE]
              ELSE IF AlreadyVisited(run.visited, run.fieldId)
                  THEN [run EXCEPT !.pc = "return", !.returned = FALSE]
              ELSE [run EXCEPT !.visited = @ \cup {run.fieldId},
                               !.recursionStack = @ \cup {run.fieldId},
                               !.stack = Append(@, Frame(run.fieldId, 1)),
                               !.expanded = Append(@, run.fieldId),
                               !.pc = "for"]
    /\ UNCHANGED <<call, ret, storeVars, localStorage, rendererVars>>

\* for (const dep of deps): the call hasCycle(dep) for the next dep, or after
\* the last one recursionStack.delete(fieldId) and return false
ForDep ==
    /\ run.pc = "for"
    /\ LET top == run.stack[Len(run.stack)]
           deps == DepsOf(run.dependencies, top.fieldId)
       IN run' = IF top.i > Len(deps)
                     THEN [run EXCEPT !.recursionStack = @ \ {top.fieldId},
                                      !.stack = SubSeq(@, 1, Len(@) - 1),
                                      !.pc = "return", !.returned = FALSE]
                 ELSE [run EXCEPT !.stack[Len(run.stack)].i = @ + 1,
                                  !.pc = "hasCycle", !.fieldId = deps[top.i]]
    /\ UNCHANGED <<call, ret, storeVars, localStorage, rendererVars>>

\* a call of hasCycle returns: to the forEach, which drops the value, or to
\* the for loop of its caller, which returns true at once on true
ReturnHasCycle ==
    /\ run.pc = "return"
    /\ run' = IF Len(run.stack) = 0 THEN [run EXCEPT !.pc = "forEach"]
              ELSE IF run.returned
                  THEN [run EXCEPT !.stack = SubSeq(@, 1, Len(@) - 1)]
              ELSE [run EXCEPT !.pc = "for"]
    /\ UNCHANGED <<call, ret, storeVars, localStorage, rendererVars>>

\* after the detection: every field's visibility and the form's validation,
\* on the same fields
EvaluateAfterDetect(formData) ==
    /\ run.pc = "done"
    /\ ret.op = "detect"
    /\ ret' = [op |-> "evaluated", cycles |-> ret.cycles,
               visible |-> [i \in 1..Len(call.fields) |->
                              evaluateConditions(call.fields[i], formData, call.fields)],
               result |-> validateForm(call.fields, formData)]
    /\ UNCHANGED <<call, run, storeVars, localStorage, rendererVars>>

(***************************************************************************)
(* SpecTraverse: the stepwise detection on every list of up to             *)
(* MaxGraphFields required text fields with ids 1, 2, .. whose rules (up   *)
(* to MaxDepsPerField each, MaxGraphRules in all) name any of the ids,     *)
(* themselves included, or an id no field has; then the engine on the same *)
(* list.                                                                   *)
(***************************************************************************)
MaxDepsPerField == 2

TraverseField(id, targets) ==
    Field(id, "text", <<"Field">>, Config(<<TRUE>>, <<>>),
          IF Len(targets) = 0 THEN NoConditions
          ELSE Conditions(TRUE, [k \in 1..Len(targets) |->
                                    CondRule(targets[k], "isNotEmpty", Undefined)], "AND"),
          id - 1)

TraverseListSamples ==
    UNION {{[i \in 1..n |-> TraverseField(i, targets[i])] :
               targets \in {t \in [1..n -> SeqsUpTo(GraphIds, MaxDepsPerField)] :
                               GraphRuleCount([i \in 1..n |-> TraverseField(i, t[i])])
                                   <= MaxGraphRules}} :
           n \in 0..MaxGraphFields}

TraverseFormData == {<<>>, [id \in 1..MaxGraphFields |-> Str(S_A)]}

InitTraverse ==
    /\ StoreInit
    /\ \E fs \in TraverseListSamples : call = [op |-> "traverse", fields |-> fs]
    /\ ret = NoCall
    /\ localStorage = NoStorage
    /\ RendererIdle
    /\ run = NoRun

NextTraverse ==
    \/ BeginDetect
    \/ ForEachField
    \/ EnterHasCycle
    \/ ForDep
    \/ ReturnHasCycle
    \/ \E formData \in TraverseFormData : EvaluateAfterDetect(formData)

SpecTraverse == InitTraverse /\ [][NextTraverse]_vars

\* the engine is single-threaded and nothing suspends it: a function that
\* has a next step takes it
SpecTraverseFair == SpecTraverse /\ WF_vars(NextTraverse)

(***************************************************************************)
(* Claims checked under SpecTraverseFair.                                  *)
(***************************************************************************)
\* the deps of no field id are walked twice
ExpandsOnce ==
    run.pc # "none" =>
        \A i \in 1..Len(run.expanded) : \A j \in 1..Len(run.expanded) :
            run.expanded[i] = run.expanded[j] => i = j

\* the stepwise detection returned what detectCircularDependencies returns
ReturnsCycles ==
    ret.op \in {"detect", "evaluated"} => ret.cycles = detectCircularDependencies(call.fields)

\* C26 - Termination: detectCircularDependencies returns on every finite
\* field list, with cycles, self-referencing rules and rules naming ids that
\* no field has, and walks the dependencies of each field id at most once;
\* evaluateConditions and validateForm return on the same lists, cyclic ones
\* included.
C26_Termination ==
    /\ [](ExpandsOnce /\ ReturnsCycles)
    /\ <>(ret.op = "detect")
    /\ <>(ret.op = "evaluated")

\* the detection returned on a list with a cycle of two fields, a rule of a
\* field on itself and a rule on an id no field has, and the engine returned
\* on that list
C26_Witness ==
    /\ ret.op = "evaluated"
    /\ Len(call.fields) = 3
    /\ \E r \in Range(RulesOf(call.fields[1])) : r.field = 2
    /\ \E r \in Range(RulesOf(call.fields[2])) : r.field = 1
    /\ \E r \in Range(RulesOf(call.fields[3])) : r.field = 3
    /\ \E r \in Range(RulesOf(call.fields[3])) : r.field = MaxGraphFields + 1
    /\ Len(ret.cycles) > 0
    /\ Len(run.expanded) = 3


(***************************************************************************)
(* SpecSelect: the store with its selection: the field handlers on a small *)
(* alphabet, newForm, loadForm of a saved form (whose fields have ids of   *)
(* their own), and selectField as the builder calls it, with the id of a   *)
(* field of the form (the click on a field) or with null.                  *)
(***************************************************************************)
\* the ids of the fields of the saved forms
LoadedIds == (MaxIds + 1)..(MaxIds + 2)

SelectIds == StoreIds \cup LoadedIds

LoadedField(id, order) == createFieldSchema("text", order, id)

LoadedFormSamples ==
    {[fields |-> fs, title |-> DEFAULT_FORM_TITLE, settings |-> DefaultSettings,
      updatedAt |-> 0] :
        fs \in {<<LoadedField(MaxIds + 1, 0)>>,
                <<LoadedField(MaxIds + 1, 0), LoadedField(MaxIds + 2, 1)>>}}

\* the update of the model: the field gets a new label
SelectUpdateSamples == {Updates(<<<<"Name">>>>, <<>>)}

NextSelect ==
    \/ \E position \in {Omitted, Given(0)} :
          AddField("text", position) /\ Record(AddOp(nextId, position))
    \/ \E fieldId \in SelectIds : \E updates \in SelectUpdateSamples :
          UpdateField(fieldId, updates) /\ Record(Op("updateField", 0, 0, 0))
    \/ \E fieldId \in SelectIds :
          RemoveField(fieldId) /\ Record(Op("removeField", fieldId, 0, 0))
    \/ \E fieldId \in SelectIds :
          DuplicateField(fieldId) /\ Record(Op("duplicateField", 0, 0, 0))
    \/ \E fromIndex \in 0..(Len(fields) - 1) : \E toIndex \in 0..(Len(fields) - 1) :
          ReorderField(fromIndex, toIndex) /\ Record(Op("reorderField", 0, 0, 0))
    \/ \E fieldId \in {0} \cup {fields[i].id : i \in 1..Len(fields)} :
          SelectField(fieldId) /\ Record(Op("selectField", 0, 0, 0))
    \/ NewForm /\ Record(Op("newForm", 0, 0, 0))
    \/ \E schema \in LoadedFormSamples :
          LoadForm(schema) /\ Record(Op("loadForm", 0, 0, 0))

SpecSelect == Init /\ [][NextSelect]_vars

(***************************************************************************)
(* Claims checked under SpecSelect.                                        *)
(***************************************************************************)
\* what ConfigPanel looks for: currentForm.fields.find(f => f.id === selectedFieldId)
SelectedFieldExists == \E i \in 1..Len(fields) : fields[i].id = selectedFieldId

\* C28 - Selection invariant: selectField being called with null or the id of
\* a field of the form only, and updateField never changing an id, in every
\* reachable state selectedFieldId is null or the id of a field of the form,
\* across addField, removeField, duplicateField, reorderField, updateField,
\* newForm and loadForm; removing a field other than the selected one leaves
\* the selection unchanged.
C28_SelectionInvariant ==
    /\ [](selectedFieldId = 0 \/ SelectedFieldExists)
    /\ [][(lastOp'.name = "removeField" /\ lastOp'.fieldId # selectedFieldId)
              => selectedFieldId' = selectedFieldId]_vars

\* a field is selected, and the removal of another field of the form has
\* left it selected
C28_Witness ==
    /\ lastOp.name = "removeField"
    /\ selectedFieldId # 0
    /\ SelectedFieldExists
    /\ lastOp.fieldId # selectedFieldId
    /\ lastOp.fieldId < nextId
    /\ \A i \in 1..Len(fields) : fields[i].id # lastOp.fieldId
    /\ Len(fields) = 2

\* the selected field was removed, and nothing is selected
C28_WitnessCleared ==
    /\ lastOp.name = "removeField"
    /\ selectedFieldId = 0
    /\ lastOp.fieldId \in LoadedIds
    /\ Len(fields) = 1


(***************************************************************************)
(* The localStorage adapter's save, list and delete.  The forms index is   *)
(* the item under STORAGE_KEYS.FORMS: the text of an array of SavedForm.   *)
(* save and delete are async: each runs up to its `await this.list()`, by  *)
(* which list has read the index, and goes on after the await with what    *)
(* list read.  run.calls holds the calls that are at their await, in the   *)
(* order in which they will go on.                                         *)
(***************************************************************************)
\* STORAGE_KEYS.FORMS
FormsKey == <<"form-builder:forms", 0>>

AdapterKeys == StorageKeys \cup {FormsKey}

\* JSON.stringify(forms), forms being an array of SavedForm
IndexText(forms) == [kind |-> "index", doc |-> NullDoc, forms |-> forms]

\* the form a caller saves under this id
FormDoc(id) ==
    Doc([key \in SchemaKeys |->
            CASE key = "version" -> JStr(SCHEMA_VERSION)
              [] key = "id" -> JStr(IF id = 1 THEN "form-1" ELSE "form-2")
              [] key = "fields" -> JArr("[]")
              [] OTHER -> JObj("{}")])

\* savedForm = {id: form.id, schema: form, savedAt: new Date().toISOString()}
SavedForm(id, schema, savedAt) == [id |-> id, schema |-> schema, savedAt |-> savedAt]

\* localStorageAdapter.list()
list(storage) ==
    LET data == getItem(storage, FormsKey) IN
    IF NoData(data) THEN <<>> ELSE data.forms

\* forms.findIndex(f => f.id === id), from zero, -1 when there is none
IndexOfForm(forms, id) ==
    IF \E i \in 1..Len(forms) : forms[i].id = id
        THEN (CHOOSE i \in 1..Len(forms) :
                  forms[i].id = id /\ \A j \in 1..(i - 1) : forms[j].id # id) - 1
    ELSE -1

\* updatedForms of save: the entry replaces the one with its id, or is appended
UpdatedFormsOfSave(forms, savedForm) ==
    LET existingIndex == IndexOfForm(forms, savedForm.id) IN
    IF existingIndex >= 0 THEN [forms EXCEPT ![existingIndex + 1] = savedForm]
    ELSE Append(forms, savedForm)

\* updatedForms of delete: forms.filter(f => f.id !== id)
UpdatedFormsOfDelete(forms, id) ==
    LET IsOther(f) == f.id # id IN SelectSeq(forms, IsOther)

\* a call at its await: what it is, its id, and what its list() returned
Awaiting(op, id, forms) == [op |-> op, id |-> id, forms |-> forms]

MaxInFlight == 2

\* save(form) up to the await: the form is written, list() reads the index
SaveUntilAwait(id) ==
    /\ run.pc = "adapter"
    /\ Len(run.calls) < MaxInFlight
    /\ localStorage' = [localStorage EXCEPT ![FormKey(id)] = JsonText(FormDoc(id))]
    /\ run' = [run EXCEPT !.calls = Append(@, Awaiting("save", id, list(localStorage')))]
    /\ UNCHANGED <<call, ret, storeVars, rendererVars>>

\* save(form) after the await: the index is written from what list() returned
SaveAfterAwait ==
    /\ run.pc = "adapter"
    /\ Len(run.calls) > 0
    /\ LET this == Head(run.calls)
           savedForm == SavedForm(this.id, FormDoc(this.id), now)
       IN /\ this.op = "save"
          /\ localStorage' = [localStorage EXCEPT ![FormsKey] =
                                 IndexText(UpdatedFormsOfSave(this.forms, savedForm))]
    /\ run' = [run EXCEPT !.calls = Tail(@)]
    /\ UNCHANGED <<call, ret, storeVars, rendererVars>>

\* delete(id) up to the await: the form is removed, list() reads the index
DeleteUntilAwait(id) ==
    /\ run.pc = "adapter"
    /\ Len(run.calls) < MaxInFlight
    /\ localStorage' = [localStorage EXCEPT ![FormKey(id)] = NoItem]
    /\ run' = [run EXCEPT !.calls = Append(@, Awaiting("delete", id, list(localStorage')))]
    /\ UNCHANGED <<call, ret, storeVars, rendererVars>>

\* delete(id) after the await
DeleteAfterAwait ==
    /\ run.pc = "adapter"
    /\ Len(run.calls) > 0
    /\ LET this == Head(run.calls)
       IN /\ this.op = "delete"
          /\ localStorage' = [localStorage EXCEPT ![FormsKey] =
                                 IndexText(UpdatedFormsOfDelete(this.forms, this.id))]
    /\ run' = [run EXCEPT !.calls = Tail(@)]
    /\ UNCHANGED <<call, ret, storeVars, rendererVars>>

(***************************************************************************)
(* SpecAdapter: save and delete of the forms with the ids of FormIds on an *)
(* empty localStorage, up to MaxInFlight calls at their await at a time.   *)
(***************************************************************************)
InitAdapter ==
    /\ StoreInit
    /\ call = NoCall
    /\ ret = NoCall
    /\ localStorage = [key \in AdapterKeys |-> NoItem]
    /\ RendererIdle
    /\ run = [pc |-> "adapter", calls |-> <<>>]

NextAdapter ==
    \/ \E id \in FormIds : SaveUntilAwait(id)
    \/ SaveAfterAwait
    \/ \E id \in FormIds : DeleteUntilAwait(id)
    \/ DeleteAfterAwait

SpecAdapter == InitAdapter /\ [][NextAdapter]_vars

(***************************************************************************)
(* Claims checked under SpecAdapter.                                       *)
(***************************************************************************)
\* the ids whose form document is stored, and the ids of the index
StoredIds == {id \in FormIds : ~NoData(getItem(localStorage, FormKey(id)))}

IndexedIds == {list(localStorage)[i].id : i \in 1..Len(list(localStorage))}

\* C29 - Forms index consistency: whenever no save or delete call is in
\* progress, the ids of the index list() returns are the ids whose form
\* document is stored, one entry per id, after any save and delete calls,
\* those that were started together and interleave at their awaits included.
C29_IndexConsistent ==
    (run.pc = "adapter" /\ Len(run.calls) = 0) =>
        /\ IndexedIds = StoredIds
        /\ Len(list(localStorage)) = Cardinality(IndexedIds)

====
